---- MODULE Spec2Model ----
(***************************************************************************)
(* Transaction tracker: the batch categorization orchestrator and its      *)
(* rule-based fallback (backend/core/categorizer.py), and the query engine *)
(* with its analytics snapshot (backend/core/rag_chatbot.py).              *)
(*                                                                         *)
(* Text is modelled as TLA+ strings; Python's `k in s` on strings is the   *)
(* substring test Contains.  Amounts are integers (minor units).           *)
(***************************************************************************)
EXTENDS Integers, Sequences, FiniteSets, TLC

(***************************************************************************)
(* Text helpers: str.lower() and the substring test.                       *)
(***************************************************************************)
LowerChar(c) ==
  CASE c = "A" -> "a" [] c = "B" -> "b" [] c = "C" -> "c" [] c = "D" -> "d"
    [] c = "E" -> "e" [] c = "F" -> "f" [] c = "G" -> "g" [] c = "H" -> "h"
    [] c = "I" -> "i" [] c = "J" -> "j" [] c = "K" -> "k" [] c = "L" -> "l"
    [] c = "M" -> "m" [] c = "N" -> "n" [] c = "O" -> "o" [] c = "P" -> "p"
    [] c = "Q" -> "q" [] c = "R" -> "r" [] c = "S" -> "s" [] c = "T" -> "t"
    [] c = "U" -> "u" [] c = "V" -> "v" [] c = "W" -> "w" [] c = "X" -> "x"
    [] c = "Y" -> "y" [] c = "Z" -> "z" [] OTHER -> c

RECURSIVE Lower(_)
Lower(s) ==
  IF Len(s) = 0 THEN ""
  ELSE LowerChar(SubSeq(s, 1, 1)) \o Lower(SubSeq(s, 2, Len(s)))

\* Python: k in s
Contains(s, k) ==
  \E i \in 1..(Len(s) - Len(k) + 1) : SubSeq(s, i, i + Len(k) - 1) = k

\* Python: any(k in s for k in keys), keys a tuple of strings
AnyIn(keys, s) == \E j \in 1..Len(keys) : Contains(s, keys[j])

(***************************************************************************)
(* The closed category taxonomy, BatchTransactionCategorizer.categories.   *)
(***************************************************************************)
categories ==
  {"Food & Dining", "Transportation", "Shopping", "Healthcare",
   "Entertainment", "Utilities & Bills", "Financial Services",
   "Personal Care", "Education", "Transfer/Refund", "Miscellaneous"}

(***************************************************************************)
(* enhanced_categorize: the rule-based categorizer.  keyword_map is kept   *)
(* as a tuple because the code iterates the dict in insertion order.       *)
(***************************************************************************)
keyword_map ==
  <<
    [category |-> "Food & Dining",
     keywords |-> <<"super", "restaurant", "food", "zomato", "swiggy", "cafe",
                   "hotel", "mess", "canteen", "dhaba", "bakery", "pizza",
                   "burger", "grocery", "mart", "store", "fresh", "fruits",
                   "vegetables", "milk", "bread", "mingos">>],
    [category |-> "Healthcare",
     keywords |-> <<"chemist", "pharmacy", "medical", "hospital", "clinic",
                   "health", "doctor", "medicine", "pharma", "apollo",
                   "care", "diagnostics", "pathology", "lab", "dental",
                   "eye", "skin">>],
    [category |-> "Transportation",
     keywords |-> <<"uber", "ola", "petrol", "fuel", "metro", "bus", "taxi",
                   "auto", "rickshaw", "transport", "travel", "booking",
                   "irctc", "railway", "airlines", "flight", "cab", "bike",
                   "scooter">>],
    [category |-> "Financial Services",
     keywords |-> <<"groww", "mutual", "fund", "bank", "loan", "insurance",
                   "invest", "sip", "rd", "fd", "policy", "premium", "emi",
                   "interest", "zerodha", "upstox", "icicidirect", "hdfc",
                   "axis", "kotak">>],
    [category |-> "Transfer/Refund",
     keywords |-> <<"transfer", "refund", "neft", "imps", "rtgs", "cashback",
                   "reversal", "credited", "debited">>],
    [category |-> "Utilities & Bills",
     keywords |-> <<"electricity", "water", "gas", "bill", "recharge",
                   "mobile", "broadband", "internet", "wifi", "jio",
                   "airtel", "vodafone", "bsnl", "rent", "maintenance">>],
    [category |-> "Shopping",
     keywords |-> <<"amazon", "flipkart", "myntra", "ajio", "shop", "store",
                   "mall", "online", "purchase", "buy", "order", "delivery",
                   "ecommerce", "fashion", "clothing", "electronics",
                   "mobile", "laptop">>],
    [category |-> "Entertainment",
     keywords |-> <<"movie", "netflix", "prime", "hotstar", "spotify",
                   "youtube", "game", "gaming", "cinema", "theatre", "show",
                   "concert", "music", "subscription", "entertainment">>],
    [category |-> "Personal Care",
     keywords |-> <<"salon", "spa", "parlour", "beauty", "cosmetic",
                   "skincare", "haircut", "facial", "massage", "grooming">>],
    [category |-> "Education",
     keywords |-> <<"school", "college", "university", "course", "training",
                   "education", "tuition", "coaching", "book", "study">>]
  >>

person_indicators ==
  <<"upi/", "/upi", "aditya", "kalpana", "pushpa", "nagamma", "fathima",
    "suhara", "clive", "allen", "savitha", "debnat", "mohan", "kumar">>

business_keywords ==
  <<"super", "store", "shop", "mart", "services", "pvt", "ltd">>

\* the index of the first keyword_map entry with a matching keyword, 0 if none
FirstKeywordMatch(narration_lower) ==
  LET hits == {i \in 1..Len(keyword_map) :
                 AnyIn(keyword_map[i].keywords, narration_lower)}
  IN  IF hits = {} THEN 0 ELSE CHOOSE i \in hits : \A j \in hits : i <= j

\* enhanced_categorize with the special patterns tested before the keyword
\* tables
enhanced_categorize_SpecialFirst(narration) ==
  LET narration_lower == Lower(narration)
      first == FirstKeywordMatch(narration_lower)
  IN  IF AnyIn(person_indicators, narration_lower)
         /\ ~AnyIn(business_keywords, narration_lower)
        THEN "Transfer/Refund"
      ELSE IF Contains(narration_lower, "cashback")
              \/ Contains(narration_lower, "earned")
        THEN "Transfer/Refund"
      ELSE IF Contains(narration_lower, "int.pd")
              \/ Contains(narration_lower, "interest")
        THEN "Financial Services"
      ELSE IF Contains(narration_lower, "adidas")
              \/ Contains(narration_lower, "nike")
        THEN "Shopping"
      ELSE IF first # 0 THEN keyword_map[first].category
      ELSE "Miscellaneous"

\* enhanced_categorize with the keyword tables tested before the person
\* indicators
enhanced_categorize_KeywordsFirst(narration) ==
  LET narration_lower == Lower(narration)
      first == FirstKeywordMatch(narration_lower)
  IN  IF first # 0 THEN keyword_map[first].category
      ELSE IF AnyIn(person_indicators, narration_lower)
              /\ ~AnyIn(business_keywords, narration_lower)
        THEN "Transfer/Refund"
      ELSE IF Contains(narration_lower, "cashback")
              \/ Contains(narration_lower, "earned")
        THEN "Transfer/Refund"
      ELSE IF Contains(narration_lower, "int.pd")
              \/ Contains(narration_lower, "interest")
        THEN "Financial Services"
      ELSE IF Contains(narration_lower, "adidas")
              \/ Contains(narration_lower, "nike")
        THEN "Shopping"
      ELSE "Miscellaneous"

enhanced_categorize(narration) ==
  LET narration_lower == Lower(narration)
      first == FirstKeywordMatch(narration_lower)
  IN  IF AnyIn(person_indicators, narration_lower)
         /\ ~AnyIn(business_keywords, narration_lower)
        THEN "Transfer/Refund"
      ELSE IF first # 0 THEN keyword_map[first].category
      ELSE IF Contains(narration_lower, "cashback")
              \/ Contains(narration_lower, "earned")
        THEN "Transfer/Refund"
      ELSE IF Contains(narration_lower, "int.pd")
              \/ Contains(narration_lower, "interest")
        THEN "Financial Services"
      ELSE IF Contains(narration_lower, "adidas")
              \/ Contains(narration_lower, "nike")
        THEN "Shopping"
      ELSE "Miscellaneous"

Min(a, b) == IF a < b THEN a ELSE b

(***************************************************************************)
(* Bounds of the model.                                                    *)
(***************************************************************************)
\* most transactions handed to one categorization run
MaxTx == 2
\* largest batch size explored (categorize_transactions_json passes 8; the
\* model explores 1..MaxBatchSize so that several batches occur)
MaxBatchSize == 2
\* most elements in one parsed response list
MaxRespLen == 2

(***************************************************************************)
(* Inputs.  The raw rows are the sample rows of test_categorization; a run *)
(* is given the first n of them.                                           *)
(***************************************************************************)
SampleTransactions ==
  << [Date |-> "2024-01-01", Narration |-> "UPI/Premsagar super/409326729134/UPI",
      Withdrawal |-> 210, Deposit |-> 0, Balance |-> 5000],
     [Date |-> "2024-01-02", Narration |-> "UPI/METRO CHEMIST a/410850854877/UPI",
      Withdrawal |-> 100, Deposit |-> 0, Balance |-> 4900],
     [Date |-> "2024-01-03", Narration |-> "NACH-MUT-DR-GROWW PAY SERVICES",
      Withdrawal |-> 100, Deposit |-> 0, Balance |-> 4800],
     [Date |-> "2024-01-04", Narration |-> "UPI/ADITYA ANIL GUJ/409403199750/UPI",
      Withdrawal |-> 0, Deposit |-> 600, Balance |-> 5400],
     [Date |-> "2024-01-05", Narration |-> "UPI/ADIDAS NEXUS KO/102159664527/UPI",
      Withdrawal |-> 2500, Deposit |-> 0, Balance |-> 2900] >>

\* the input lists of the model: the first n sample rows, n <= MaxTx
InputLists ==
  {SubSeq(SampleTransactions, 1, n) : n \in 0..Min(MaxTx, Len(SampleTransactions))}

\* ids a response may name: the input ids 0..MaxTx-1 and one id (MaxTx) that
\* no input transaction carries
ResponseIds == 0..MaxTx

\* labels a response may carry: a taxonomy member and a label outside it
ResponseLabels == {"Shopping", "Groceries"}

\* One element of a parsed response list.  shape "pair": a dict with both keys
\* and a hashable id; "pair_unhashable_id": a dict with both keys whose id is
\* a JSON list or object; "other": anything else (not a dict, or a key missing)
ResponseElements ==
  [shape : {"pair"}, id : ResponseIds, category : ResponseLabels]
    \cup {[shape |-> "pair_unhashable_id", id |-> 0, category |-> "Shopping"],
          [shape |-> "other", id |-> 0, category |-> ""]}

NoResult == [shape |-> "none", id |-> 0, category |-> ""]

\* How a loop iteration can end: "completed" (the response list was read to
\* its end), "raised_in_loop" (a dict assignment raised while the list was
\* read), or "failed", a failure before any pair is read, of one of the kinds
\*   transport_error  call_openai_api raised
\*   not_json         json.loads raised JSONDecodeError
\*   not_list         json.loads returned a value that is not a list
FailureKinds == {"transport_error", "not_json", "not_list"}

(***************************************************************************)
(* State.                                                                  *)
(***************************************************************************)
VARIABLES
  transactions_json,    \* the raw rows given to categorize_transactions_json
  api_key,              \* whether OPENAI_API_KEY is set
  batch_size,           \* batch_size of batch_categorize_all_transactions
  pc,                   \* position of the categorization run
  categorization_data,  \* json_to_categorization_format(transactions_json)
  batch_num,            \* loop variable of batch_categorize_all_transactions
  all_results,          \* the mapping id -> category being built
  position,             \* elements of batch_results read so far
  result,               \* loop variable of the loop over batch_results
  stored,               \* ids stored from the pairs of the current response
  named,                \* ids stored from a pair of any response so far
  omitted,              \* input ids whose own batch completed without naming them
  outcome,              \* per finished batch: how its loop iteration ended
  requests,             \* the prompts sent to the classification service
  categorized_file,     \* data/processed/categorized_transactions.json
  chatbot_instance,     \* rag_chatbot._chatbot_instance
  last_question,        \* the question asked last, None when none is pending
  last_response,        \* the answer it was given
  rule_narration,       \* the narration given to enhanced_categorize
  rule_category,        \* what enhanced_categorize returned for it
  batch_responses,      \* per batch, the response it is given
  processed             \* numbers of the batches processed so far

\* the state of a categorization run
runVars ==
  <<transactions_json, api_key, batch_size, pc, categorization_data,
    batch_num, all_results, position, result, stored, named, omitted, outcome,
    requests>>

\* the state of the query engine
chatVars == <<chatbot_instance, last_question, last_response>>

\* the state of a call of the rule-based categorizer on its own
ruleVars == <<rule_narration, rule_category>>

\* the state of a batch loop taken in any order
orderVars == <<batch_responses, processed>>

vars == <<runVars, categorized_file, chatVars, ruleVars, orderVars>>

None == <<>>

\* a file: Missing, or the file holding a content
Missing == <<>>

FileWith(content) == <<content>>

Content(file) == file[1]

(***************************************************************************)
(* json_to_categorization_format                                           *)
(***************************************************************************)
TxRef(index, transaction) ==
  [id |-> index,
   date |-> transaction.Date,
   narration |-> transaction.Narration,
   amount |-> IF transaction.Withdrawal # 0 THEN transaction.Withdrawal
              ELSE transaction.Deposit,
   type |-> IF transaction.Withdrawal # 0 /\ transaction.Withdrawal > 0
            THEN "debit" ELSE "credit"]

json_to_categorization_format(txs) ==
  [i \in 1..Len(txs) |-> TxRef(i - 1, txs[i])]

(***************************************************************************)
(* batch_categorize_all_transactions                                       *)
(***************************************************************************)
\* the batch count rounded down instead of up
total_batches_Floor(transactions, size) == Len(transactions) \div size

total_batches(transactions, size) == (Len(transactions) + size - 1) \div size

\* transactions[start_idx:end_idx] of batch number k (zero-based)
BatchOf(transactions, size, k) ==
  LET start_idx == k * size
      end_idx == Min(start_idx + size, Len(transactions))
  IN  SubSeq(transactions, start_idx + 1, end_idx)

\* dict assignment d[k] = v
Put(d, k, v) == [x \in DOMAIN d \cup {k} |-> IF x = k THEN v ELSE d[x]]

\* variant: the label of the response is stored as it came
ValidatedCategory_KeepsLabel(category) == category

\* the label stored for a response pair: validated against the taxonomy
ValidatedCategory(category) ==
  IF category \in categories THEN category ELSE "Miscellaneous"

\* variant: the fallback loop assigns every id of the batch, stored or not
RECURSIVE Fallback_Overwrites(_, _)
Fallback_Overwrites(results, batch) ==
  IF Len(batch) = 0 THEN results
  ELSE Fallback_Overwrites(Put(results, Head(batch).id,
                               enhanced_categorize(Head(batch).narration)),
                           Tail(batch))

\* variant: the fallback loop stops after the first transaction of the batch
Fallback_FirstOnly(results, batch) ==
  IF Len(batch) = 0 \/ batch[1].id \in DOMAIN results THEN results
  ELSE Put(results, batch[1].id, enhanced_categorize(batch[1].narration))

\* the except branch: rule-based category for the batch ids not yet stored
RECURSIVE Fallback(_, _)
Fallback(results, batch) ==
  IF Len(batch) = 0 THEN results
  ELSE LET tx == Head(batch)
       IN  IF tx.id \notin DOMAIN results
             THEN Fallback(Put(results, tx.id, enhanced_categorize(tx.narration)),
                           Tail(batch))
           ELSE Fallback(results, Tail(batch))

(***************************************************************************)
(* categorize_transactions_json: ledger assembly                           *)
(***************************************************************************)
\* variant: a default label that is not a taxonomy member
GetOrMisc_OtherDefault(results, i) ==
  IF i \in DOMAIN results THEN results[i] ELSE "Uncategorized"

\* results.get(i, "Miscellaneous")
GetOrMisc(results, i) ==
  IF i \in DOMAIN results THEN results[i] ELSE "Miscellaneous"

\* transaction.copy() with the Category key added
WithCategory(transaction, category) ==
  [Date |-> transaction.Date, Narration |-> transaction.Narration,
   Withdrawal |-> transaction.Withdrawal, Deposit |-> transaction.Deposit,
   Balance |-> transaction.Balance, Category |-> category]

\* variant: the category of record i is looked up under the one-based
\* position of the record
categorized_transactions_OneBased(txs, results) ==
  [i \in 1..Len(txs) |-> WithCategory(txs[i], GetOrMisc(results, i))]

categorized_transactions(txs, results) ==
  [i \in 1..Len(txs) |-> WithCategory(txs[i], GetOrMisc(results, i - 1))]

(***************************************************************************)
(* The categorization run as a state machine.  The response list of a      *)
(* batch is read one element per step: its elements are inputs of the run, *)
(* drawn when the loop over batch_results reaches them.                    *)
(***************************************************************************)
Init ==
  /\ transactions_json \in InputLists
  /\ api_key \in BOOLEAN
  /\ batch_size \in 1..MaxBatchSize
  /\ pc = "start"
  /\ categorization_data = <<>>
  /\ batch_num = 0
  /\ all_results = <<>>
  /\ position = 0
  /\ result = NoResult
  /\ stored = {}
  /\ named = {}
  /\ omitted = {}
  /\ outcome = <<>>
  /\ requests = <<>>
  /\ batch_responses = <<>>
  /\ processed = {}
  /\ categorized_file = Missing
  /\ chatbot_instance = None
  /\ last_question = None
  /\ last_response = None
  /\ rule_narration = ""
  /\ rule_category = None

\* categorize_transactions_json without an API key: ValueError, re-raised
StartNoKey ==
  /\ pc = "start"
  /\ ~api_key
  /\ pc' = "raised"
  /\ UNCHANGED <<chatVars, ruleVars, orderVars>>
  /\ UNCHANGED requests
  /\ UNCHANGED <<transactions_json, api_key, batch_size, categorization_data,
                 batch_num, all_results, position, result, stored, named,
                 omitted, outcome, categorized_file>>

\* categorize_transactions_json up to the call of the orchestrator
StartRun ==
  /\ pc = "start"
  /\ api_key
  /\ categorization_data' = json_to_categorization_format(transactions_json)
  /\ all_results' = <<>>
  /\ batch_num' = 0
  /\ pc' = "loop"
  /\ UNCHANGED <<chatVars, ruleVars, orderVars>>
  /\ UNCHANGED requests
  /\ UNCHANGED <<transactions_json, api_key, batch_size, position, result,
                 stored, named, omitted, outcome, categorized_file>>

CurrentBatch == BatchOf(categorization_data, batch_size, batch_num)

\* create_categorization_prompt(batch): the fixed instructions, then one line
\* "ID {id}: {narration} ({amount} - {type})" per transaction of the batch
create_categorization_prompt(batch) ==
  [i \in 1..Len(batch) |->
     [id |-> batch[i].id, narration |-> batch[i].narration,
      amount |-> batch[i].amount, type |-> batch[i].type]]

BatchIds(batch) == {batch[i].id : i \in 1..Len(batch)}

\* variant: the exception of the batch is re-raised instead of handled
ExceptBranch_Propagates ==
  /\ pc' = "raised"
  /\ UNCHANGED <<all_results, batch_num, position, result, stored>>

\* the except branch of the current batch, then on to the next batch
ExceptBranch ==
  /\ all_results' = Fallback(all_results, CurrentBatch)
  /\ batch_num' = batch_num + 1
  /\ pc' = "loop"
  /\ position' = 0
  /\ result' = NoResult
  /\ stored' = {}

\* a loop iteration whose call or parse fails before any pair is read
BatchFails(kind) ==
  /\ pc = "loop"
  /\ batch_num < total_batches(categorization_data, batch_size)
  /\ requests' = Append(requests, create_categorization_prompt(CurrentBatch))
  /\ kind \in FailureKinds
  /\ outcome' = Append(outcome, "failed")
  /\ ExceptBranch
  /\ UNCHANGED <<chatVars, ruleVars, orderVars>>
  /\ UNCHANGED <<transactions_json, api_key, batch_size, categorization_data,
                 named, omitted, categorized_file>>

\* a loop iteration whose response parses as a list: the loop over it begins
BatchParsesList ==
  /\ pc = "loop"
  /\ batch_num < total_batches(categorization_data, batch_size)
  /\ requests' = Append(requests, create_categorization_prompt(CurrentBatch))
  /\ pc' = "storing"
  /\ UNCHANGED <<chatVars, ruleVars, orderVars>>
  /\ UNCHANGED <<transactions_json, api_key, batch_size, categorization_data,
                 batch_num, all_results, position, result, stored, named,
                 omitted, outcome, categorized_file>>

\* the loop over batch_results reads a pair with a hashable id
StorePair(e) ==
  /\ pc = "storing"
  /\ position < MaxRespLen
  /\ e.shape = "pair"
  /\ result' = e
  /\ position' = position + 1
  /\ all_results' = Put(all_results, e.id, ValidatedCategory(e.category))
  /\ stored' = stored \cup {e.id}
  /\ named' = named \cup {e.id}
  /\ UNCHANGED <<chatVars, ruleVars, orderVars>>
  /\ UNCHANGED requests
  /\ UNCHANGED <<transactions_json, api_key, batch_size, pc, categorization_data,
                 batch_num, omitted, outcome, categorized_file>>

\* it reads a pair whose id is unhashable: the dict assignment raises
StoreRaises(e) ==
  /\ pc = "storing"
  /\ position < MaxRespLen
  /\ e.shape = "pair_unhashable_id"
  /\ outcome' = Append(outcome, "raised_in_loop")
  /\ ExceptBranch
  /\ UNCHANGED <<chatVars, ruleVars, orderVars>>
  /\ UNCHANGED requests
  /\ UNCHANGED <<transactions_json, api_key, batch_size, categorization_data,
                 named, omitted, categorized_file>>

\* it reads an element that is not a dict with both keys: skipped
SkipElement(e) ==
  /\ pc = "storing"
  /\ position < MaxRespLen
  /\ e.shape = "other"
  /\ result' = e
  /\ position' = position + 1
  /\ UNCHANGED <<chatVars, ruleVars, orderVars>>
  /\ UNCHANGED requests
  /\ UNCHANGED <<transactions_json, api_key, batch_size, pc, categorization_data,
                 batch_num, all_results, stored, named, omitted, outcome,
                 categorized_file>>

\* the response list is exhausted: the batch completed without an exception
EndOfList ==
  /\ pc = "storing"
  /\ omitted' = omitted \cup (BatchIds(CurrentBatch) \ stored)
  /\ outcome' = Append(outcome, "completed")
  /\ batch_num' = batch_num + 1
  /\ pc' = "loop"
  /\ position' = 0
  /\ result' = NoResult
  /\ stored' = {}
  /\ UNCHANGED <<chatVars, ruleVars, orderVars>>
  /\ UNCHANGED requests
  /\ UNCHANGED <<transactions_json, api_key, batch_size, categorization_data,
                 all_results, named, categorized_file>>

\* the loop is over: batch_categorize_all_transactions returns all_results
ReturnResults ==
  /\ pc = "loop"
  /\ batch_num = total_batches(categorization_data, batch_size)
  /\ pc' = "returned"
  /\ UNCHANGED <<chatVars, ruleVars, orderVars>>
  /\ UNCHANGED requests
  /\ UNCHANGED <<transactions_json, api_key, batch_size, categorization_data,
                 batch_num, all_results, position, result, stored, named,
                 omitted, outcome, categorized_file>>

\* categorize_transactions_json after the call: assemble and save the ledger
Assemble ==
  /\ pc = "returned"
  /\ categorized_file' =
       FileWith(categorized_transactions(transactions_json, all_results))
  /\ pc' = "done"
  /\ UNCHANGED <<chatVars, ruleVars, orderVars>>
  /\ UNCHANGED requests
  /\ UNCHANGED <<transactions_json, api_key, batch_size, categorization_data,
                 batch_num, all_results, position, result, stored, named,
                 omitted, outcome>>

Next ==
  \/ StartNoKey
  \/ StartRun
  \/ \E kind \in FailureKinds : BatchFails(kind)
  \/ BatchParsesList
  \/ \E e \in ResponseElements : StorePair(e)
  \/ \E e \in ResponseElements : StoreRaises(e)
  \/ \E e \in ResponseElements : SkipElement(e)
  \/ EndOfList
  \/ ReturnResults
  \/ Assemble

Spec == Init /\ [][Next]_vars

\* batch numbers whose except branch (the rule-based fallback) ran
Degraded == {k \in 0..(Len(outcome) - 1) : outcome[k + 1] # "completed"}

TypeOK ==
  /\ pc \in {"start", "raised", "loop", "storing", "returned", "done"}
  /\ batch_num \in 0..MaxTx
  /\ DOMAIN all_results \subseteq ResponseIds

(***************************************************************************)
(* Properties of the categorization run.                                   *)
(***************************************************************************)
Narrations == {SampleTransactions[i].Narration : i \in 1..Len(SampleTransactions)}

\* what enhanced_categorize returns for a narration on its own
standalone == [n \in Narrations |-> enhanced_categorize(n)]

InputIds == 0..(Len(transactions_json) - 1)

\* batch k of the run (zero-based)
Batch(k) == BatchOf(categorization_data, batch_size, k)

\* ids of the batches that took the fallback
FallbackIds == UNION {BatchIds(Batch(k)) : k \in Degraded}

\* batch k took the fallback and every id of it holds its standalone value
RuleBasedBatch(k) ==
  \A i \in 1..Len(Batch(k)) :
    /\ Batch(k)[i].id \in DOMAIN all_results
    /\ all_results[Batch(k)[i].id] = standalone[Batch(k)[i].narration]

\* C1 (as claimed): in the returned mapping every id of a batch whose call
\* failed (transport error, undecodable or non-list response) holds the value
\* enhanced_categorize gives its narration, whatever the other batches answered.
C1_FailedBatchIsRuleBased ==
  pc = "returned" =>
    \A k \in 0..(Len(outcome) - 1) :
      outcome[k + 1] = "failed" => RuleBasedBatch(k)

\* C2 (as claimed): the key set of the returned mapping is the input id set.
C2_KeysAreInputIds ==
  pc = "returned" => DOMAIN all_results = InputIds

\* C2 (amended): the keys of the mapping are exactly the ids named by a stored
\* response pair together with the ids of the batches that took the fallback;
\* the input ids without an entry at return are exactly those their own
\* completed batch omitted and no response pair named.
C2_KeysAreNamedOrFallback ==
  /\ DOMAIN all_results = named \cup FallbackIds
  /\ pc = "returned" => InputIds \ DOMAIN all_results = omitted \ named

C2_Witness ==
  /\ pc = "returned"
  /\ InputIds \ DOMAIN all_results # {}
  /\ Degraded # {}
  /\ DOMAIN all_results \ InputIds # {}

\* a loop iteration that fails before any pair is read
FailingStep ==
  /\ pc = "loop"
  /\ Len(outcome') = Len(outcome) + 1
  /\ outcome'[Len(outcome')] = "failed"

\* C3: a failure of a batch (API exception, JSON decode error, non-list
\* response) is handled inside the loop: the run goes on with the next batch,
\* the entries already in the mapping are unchanged, nothing is raised to the
\* caller, and at return every batch has been processed.
C3_FailureIsIsolated ==
  /\ [][FailingStep =>
          /\ pc' = "loop"
          /\ batch_num' = batch_num + 1
          /\ \A id \in DOMAIN all_results :
               id \in DOMAIN all_results' /\ all_results'[id] = all_results[id]]_vars
  /\ [](pc = "raised" => ~api_key)
  /\ [](pc = "returned" =>
          /\ batch_num = total_batches(categorization_data, batch_size)
          /\ Len(outcome) = batch_num)

C3_Witness ==
  /\ pc = "returned"
  /\ Len(outcome) = 2
  /\ outcome[1] = "failed"
  /\ outcome[2] = "completed"
  /\ 1 \in DOMAIN all_results
  /\ all_results[1] = "Shopping"

\* a step that stores a pair whose label is outside the taxonomy
InvalidLabelStep ==
  /\ pc = "storing"
  /\ position' = position + 1
  /\ result'.shape = "pair"
  /\ result'.category \notin categories

\* C4: storing a pair whose label is outside the taxonomy maps that id, and
\* only that id, to Miscellaneous; the fallback does not run and the entries
\* of all other ids stay as the response gave them.
C4_InvalidLabelCoercedPerItem ==
  [][InvalidLabelStep =>
       /\ all_results' = Put(all_results, result'.id, "Miscellaneous")
       /\ pc' = "storing"
       /\ outcome' = outcome]_vars

C4_Witness ==
  /\ pc = "storing"
  /\ result.shape = "pair"
  /\ result.category \notin categories
  /\ all_results[result.id] = "Miscellaneous"
  /\ \E other \in stored \ {result.id} : all_results[other] = "Shopping"

\* C5 (as claimed): an id its own completed batch omitted has no entry in the
\* returned mapping, and its ledger record gets Miscellaneous.
C5_OmittedIdIsMiscellaneous ==
  pc = "done" =>
    \A id \in omitted :
      /\ id \notin DOMAIN all_results
      /\ Content(categorized_file)[id + 1].Category = "Miscellaneous"

\* C6: every record of the assembled ledger carries a taxonomy member.
C6_LedgerCategoriesInTaxonomy ==
  pc = "done" =>
    \A i \in 1..Len(Content(categorized_file)) : Content(categorized_file)[i].Category \in categories

C6_Witness ==
  /\ pc = "done"
  /\ \E i \in 1..Len(Content(categorized_file)) :
       (i - 1) \in named /\ Content(categorized_file)[i].Category = "Miscellaneous"
  /\ \E i \in 1..Len(Content(categorized_file)) :
       (i - 1) \notin DOMAIN all_results
  /\ Degraded # {}

(***************************************************************************)
(* The query engine: backend/core/rag_chatbot.py, its routes in            *)
(* backend/api/chatbot_routes.py, and the category report of               *)
(* backend/core/faq.py.                                                    *)
(***************************************************************************)

\* the longest ledger file of the model
MaxLedger == 2

\* records a ledger file may hold: a debit, a credit and a debit of a later
\* month, each with the Category key the categorizer adds
LedgerRecords ==
  { [Date |-> "2024-01-10", Narration |-> "UPI/SWIGGY/ORDER 7731",
     Withdrawal |-> 250, Deposit |-> 0, Balance |-> 4750,
     Category |-> "Food & Dining"],
    [Date |-> "2024-02-05", Narration |-> "NEFT SALARY CREDIT",
     Withdrawal |-> 0, Deposit |-> 6000, Balance |-> 10750,
     Category |-> "Transfer/Refund"],
    [Date |-> "2024-02-20", Narration |-> "UPI/ADIDAS NEXUS KO/102159664527/UPI",
     Withdrawal |-> 5000, Deposit |-> 0, Balance |-> 5750,
     Category |-> "Shopping"] }

\* ledgers: at most MaxLedger of the records, no record twice, in any stored
\* order; the empty list included
Ledgers ==
  {ledger \in UNION {[1..n -> LedgerRecords] : n \in 0..MaxLedger} :
     \A i, j \in 1..Len(ledger) : ledger[i] = ledger[j] => i = j}

\* an empty dict
EmptyDict == [k \in {} |-> 0]

DigitValue(c) ==
  CASE c = "0" -> 0 [] c = "1" -> 1 [] c = "2" -> 2 [] c = "3" -> 3
    [] c = "4" -> 4 [] c = "5" -> 5 [] c = "6" -> 6 [] c = "7" -> 7
    [] c = "8" -> 8 [] c = "9" -> 9

DigitChar(n) ==
  CASE n = 0 -> "0" [] n = 1 -> "1" [] n = 2 -> "2" [] n = 3 -> "3"
    [] n = 4 -> "4" [] n = 5 -> "5" [] n = 6 -> "6" [] n = 7 -> "7"
    [] n = 8 -> "8" [] n = 9 -> "9"

\* int() of a string of decimal digits
RECURSIVE ParseInt(_)
ParseInt(s) ==
  IF Len(s) = 0 THEN 0
  ELSE ParseInt(SubSeq(s, 1, Len(s) - 1)) * 10
         + DigitValue(SubSeq(s, Len(s), Len(s)))

\* a number printed with leading zeros to the given width (%Y, %m, %d)
RECURSIVE ZeroPadded(_, _)
ZeroPadded(n, width) ==
  IF width = 0 THEN ""
  ELSE ZeroPadded(n \div 10, width - 1) \o DigitChar(n % 10)

\* pd.to_datetime of a "YYYY-MM-DD" string
to_datetime(s) ==
  [year  |-> ParseInt(SubSeq(s, 1, 4)),
   month |-> ParseInt(SubSeq(s, 6, 7)),
   day   |-> ParseInt(SubSeq(s, 9, 10))]

\* the order of timestamps
Ordinal(ts) == ts.year * 10000 + ts.month * 100 + ts.day

\* Timestamp.strftime('%Y-%m-%d')
strftime(ts) ==
  ZeroPadded(ts.year, 4) \o "-" \o ZeroPadded(ts.month, 2) \o "-"
    \o ZeroPadded(ts.day, 2)

\* str(Timestamp.to_period('M'))
to_period(ts) == ZeroPadded(ts.year, 4) \o "-" \o ZeroPadded(ts.month, 2)

\* pd.DataFrame(self.transactions) with the Date column parsed
DataFrame(transactions) ==
  [i \in 1..Len(transactions) |->
     [Date |-> to_datetime(transactions[i].Date),
      Narration |-> transactions[i].Narration,
      Withdrawal |-> transactions[i].Withdrawal,
      Deposit |-> transactions[i].Deposit,
      Balance |-> transactions[i].Balance,
      Category |-> transactions[i].Category]]

\* Series.sum() of a column
RECURSIVE Sum(_, _)
Sum(rows, column) ==
  IF rows = <<>> THEN 0 ELSE rows[1][column] + Sum(Tail(rows), column)

\* Series.mean() of a column, kept as the exact ratio sum/count
Mean(rows, column) == [sum |-> Sum(rows, column), count |-> Len(rows)]

\* Series.max() and Series.min() of a column of a non-empty frame
SeriesMax(rows, column) ==
  CHOOSE v \in {rows[i][column] : i \in 1..Len(rows)} :
    \A i \in 1..Len(rows) : rows[i][column] <= v

SeriesMin(rows, column) ==
  CHOOSE v \in {rows[i][column] : i \in 1..Len(rows)} :
    \A i \in 1..Len(rows) : rows[i][column] >= v

\* Series.unique() as a set
Unique(rows, column) == {rows[i][column] : i \in 1..Len(rows)}

\* the frame without its i-th row
Without(rows, i) == SubSeq(rows, 1, i - 1) \o SubSeq(rows, i + 1, Len(rows))

\* DataFrame.nlargest(n, column): the n rows of largest value, largest
\* first, equal values in stored order
RECURSIVE nlargest(_, _, _)
nlargest(n, rows, column) ==
  IF n = 0 \/ rows = <<>> THEN <<>>
  ELSE LET i == CHOOSE i \in 1..Len(rows) :
                  /\ \A j \in 1..Len(rows) : rows[j][column] <= rows[i][column]
                  /\ \A j \in 1..(i - 1) : rows[j][column] < rows[i][column]
       IN  <<rows[i]>> \o nlargest(n - 1, Without(rows, i), column)

\* rows of top_expenses and top_credits
TopN == 10

\* df[df['Category'] == category] with the large withdrawals of the other
\* categories added to every bucket
cat_data_Overlapping(df, category) ==
  SelectSeq(df, LAMBDA r : r.Category = category \/ r.Withdrawal > 1000)

\* df[df['Category'] == category]
cat_data(df, category) == SelectSeq(df, LAMBDA r : r.Category = category)

\* the per-category entry of the snapshot
category_stats(data) ==
  [total_spent |-> Sum(data, "Withdrawal"),
   total_received |-> Sum(data, "Deposit"),
   avg_spent |-> Mean(data, "Withdrawal"),
   avg_received |-> Mean(data, "Deposit"),
   transaction_count |-> Len(data),
   max_transaction |-> SeriesMax(data, "Withdrawal"),
   min_transaction |-> SeriesMin(data, "Withdrawal"),
   spending_transactions |-> Len(SelectSeq(data, LAMBDA r : r.Withdrawal > 0)),
   credit_transactions |-> Len(SelectSeq(data, LAMBDA r : r.Deposit > 0))]

\* the frame with the YearMonth column compute_analytics adds to self.df
WithYearMonth(df) ==
  [i \in 1..Len(df) |->
     [Date |-> df[i].Date, Narration |-> df[i].Narration,
      Withdrawal |-> df[i].Withdrawal, Deposit |-> df[i].Deposit,
      Balance |-> df[i].Balance, Category |-> df[i].Category,
      YearMonth |-> to_period(df[i].Date)]]

month_data(df, month) ==
  SelectSeq(WithYearMonth(df), LAMBDA r : r.YearMonth = month)

monthly_stats(data) ==
  [total_spent |-> Sum(data, "Withdrawal"),
   total_received |-> Sum(data, "Deposit"),
   avg_spent |-> Mean(data, "Withdrawal"),
   transaction_count |-> Len(data),
   net_flow |-> Sum(data, "Deposit") - Sum(data, "Withdrawal")]

\* the row whose Date is the column's min() / max()
DateMin(df) ==
  CHOOSE d \in {df[i].Date : i \in 1..Len(df)} :
    \A i \in 1..Len(df) : Ordinal(d) <= Ordinal(df[i].Date)

DateMax(df) ==
  CHOOSE d \in {df[i].Date : i \in 1..Len(df)} :
    \A i \in 1..Len(df) : Ordinal(d) >= Ordinal(df[i].Date)

\* df.iloc[-1][column]
iloc_Last(df, column) == df[Len(df)][column]

\* the top expenses with every column of the frame: to_dict('records')
\* without the column selection
expense_records_AllColumns(rows) == rows

\* [['Date', 'Narration', 'Withdrawal(Dr)', 'Category']].to_dict('records')
expense_records(rows) ==
  [i \in 1..Len(rows) |->
     [Date |-> rows[i].Date, Narration |-> rows[i].Narration,
      Withdrawal |-> rows[i].Withdrawal, Category |-> rows[i].Category]]

\* [['Date', 'Narration', 'Deposit(Cr)', 'Category']].to_dict('records')
credit_records(rows) ==
  [i \in 1..Len(rows) |->
     [Date |-> rows[i].Date, Narration |-> rows[i].Narration,
      Deposit |-> rows[i].Deposit, Category |-> rows[i].Category]]

\* the analytics snapshot
compute_analytics(df) ==
  IF df = <<>> THEN EmptyDict
  ELSE
    [total_transactions |-> Len(df),
     total_spent |-> Sum(df, "Withdrawal"),
     total_received |-> Sum(df, "Deposit"),
     current_balance |-> iloc_Last(df, "Balance"),
     date_range |-> [start |-> strftime(DateMin(df)),
                     end |-> strftime(DateMax(df))],
     summary |-> [total_transactions |-> Len(df),
                  total_debits |-> Sum(df, "Withdrawal"),
                  total_credits |-> Sum(df, "Deposit"),
                  current_balance |-> iloc_Last(df, "Balance")],
     categories |-> [category \in Unique(df, "Category") |->
                       category_stats(cat_data(df, category))],
     monthly |-> [month \in Unique(WithYearMonth(df), "YearMonth") |->
                    monthly_stats(month_data(df, month))],
     top_expenses |-> expense_records(nlargest(TopN, df, "Withdrawal")),
     top_credits |-> credit_records(nlargest(TopN, df, "Deposit"))]

\* RAGTransactionChatbot(data_path): load_data, then the frame and snapshot
load_data(file) == IF file = Missing THEN <<>> ELSE Content(file)

RAGTransactionChatbot(file) ==
  LET loaded == load_data(file)
  IN  IF loaded # <<>>
      THEN [transactions |-> loaded,
            df |-> WithYearMonth(DataFrame(loaded)),
            analytics |-> compute_analytics(DataFrame(loaded))]
      ELSE [transactions |-> loaded, df |-> <<>>, analytics |-> EmptyDict]

\* FinancialAnalyzer.get_total_spending on the transactions it loaded
get_total_spending(transactions) ==
  IF transactions = <<>> THEN 0 ELSE Sum(transactions, "Withdrawal")

\* FinancialAnalyzer.get_category_wise_spending on the transactions it loaded
get_category_wise_spending(transactions) ==
  LET expenses == SelectSeq(transactions, LAMBDA r : r.Withdrawal > 0)
  IN  [category \in Unique(expenses, "Category") |->
         Sum(SelectSeq(expenses, LAMBDA r : r.Category = category),
             "Withdrawal")]

\* is_transaction_related: financial_keywords
financial_keywords ==
  <<"transaction", "transactions", "payment", "payments", "transfer",
    "transfers", "spend", "spent", "spending", "expense", "expenses",
    "cost", "costs", "credit", "credited", "debit", "debited", "deposit",
    "withdrawal", "withdraw", "money", "amount", "rupees", "rs", "₹",
    "balance", "account", "total", "sum", "average", "avg", "mean",
    "count", "number", "how many", "how much", "top", "highest", "lowest",
    "maximum", "minimum", "largest", "smallest", "trend", "monthly",
    "yearly", "over time", "breakdown", "summary", "food", "dining",
    "restaurant", "healthcare", "health", "medical", "financial",
    "finance", "investment", "transport", "transportation", "travel",
    "education", "shopping", "personal", "care", "transfer", "refund",
    "miscellaneous", "category", "categories", "month", "year", "daily",
    "weekly", "period", "date", "time">>

\* is_transaction_related: non_financial_keywords
non_financial_keywords ==
  <<"weather", "climate", "temperature", "rain", "sunny", "cloudy",
    "recipe", "cooking", "ingredients", "food recipe", "how to cook",
    "movie", "film", "actor", "actress", "cinema", "entertainment",
    "sports", "football", "cricket", "basketball", "game", "match",
    "politics", "government", "election", "politician", "policy">>

\* greetings
greetings ==
  <<"hello", "hi", "hey", "good morning", "good afternoon", "good evening">>

\* general_chat
general_chat ==
  <<"how are you", "what can you do", "help", "what is your name">>

\* help_keywords
help_keywords ==
  <<"help", "what can you do", "capabilities", "features">>

\* extract_date_info: months, in dict order
months ==
  <<<<"january", "01">>,
    <<"february", "02">>,
    <<"march", "03">>,
    <<"april", "04">>,
    <<"may", "05">>,
    <<"june", "06">>,
    <<"july", "07">>,
    <<"august", "08">>,
    <<"september", "09">>,
    <<"october", "10">>,
    <<"november", "11">>,
    <<"december", "12">>,
    <<"jan", "01">>,
    <<"feb", "02">>,
    <<"mar", "03">>,
    <<"apr", "04">>,
    <<"jun", "06">>,
    <<"jul", "07">>,
    <<"aug", "08">>,
    <<"sep", "09">>,
    <<"oct", "10">>,
    <<"nov", "11">>,
    <<"dec", "12">>>>

\* understand_question: category_mapping, in dict order
category_mapping ==
  <<<<"food", "Food & Dining">>,
    <<"dining", "Food & Dining">>,
    <<"restaurant", "Food & Dining">>,
    <<"healthcare", "Healthcare">>,
    <<"health", "Healthcare">>,
    <<"medical", "Healthcare">>,
    <<"financial", "Financial Services">>,
    <<"finance", "Financial Services">>,
    <<"transport", "Transportation">>,
    <<"transportation", "Transportation">>,
    <<"travel", "Transportation">>,
    <<"education", "Education">>,
    <<"shopping", "Shopping">>,
    <<"personal", "Personal Care">>,
    <<"care", "Personal Care">>>>

\* handle_comparison_question: months
month_names ==
  <<"january", "february", "march", "april", "may", "june", "july",
    "august", "september", "october", "november", "december">>

\* understand_question: the cascade of intent types, first match wins
type_cascade ==
  << [type |-> "greeting", words |->
       greetings],
     [type |-> "help", words |->
       help_keywords],
     [type |-> "trend", words |->
       <<"trend", "trending", "pattern", "over time", "growth", "increase",
        "decrease">>],
     [type |-> "comparison", words |->
       <<"compare", "comparison", "vs", "versus", "against">>],
     [type |-> "search", words |->
       <<"find", "search", "containing", "show me", "payments to">>],
     [type |-> "threshold", words |->
       <<"above", "below", "greater than", "less than", "between", "over",
        "under">>],
     [type |-> "minimum", words |->
       <<"lowest", "minimum", "smallest", "least", "bottom">>],
     [type |-> "percentage", words |->
       <<"percentage", "percent", "%", "ratio", "proportion">>],
     [type |-> "frequency", words |->
       <<"frequency", "often", "how many times", "frequent">>],
     [type |-> "average", words |->
       <<"average", "avg", "mean">>],
     [type |-> "total", words |->
       <<"total", "sum", "how much">>],
     [type |-> "count", words |->
       <<"count", "number", "how many">>],
     [type |-> "top", words |->
       <<"top", "highest", "largest", "biggest", "maximum">>],
     [type |-> "balance", words |->
       <<"balance", "current">>],
     [type |-> "category_breakdown", words |->
       <<"category", "categories", "breakdown">>] >>

credit_words ==
  <<"credited", "credit", "received", "deposit">>

debit_words ==
  <<"debited", "debit", "withdrawn", "spent", "expense">>

(***************************************************************************)
(* Understanding a question.                                               *)
(***************************************************************************)

\* an optional value: None, or Some(v)
Some(v) == <<v>>

Char(s, i) == SubSeq(s, i, i)

IsSpace(c) == c \in {" ", "\t", "\n", "\r"}

IsDigit(c) == c \in {"0", "1", "2", "3", "4", "5", "6", "7", "8", "9"}

LowerLetters ==
  {"a", "b", "c", "d", "e", "f", "g", "h", "i", "j", "k", "l", "m", "n",
   "o", "p", "q", "r", "s", "t", "u", "v", "w", "x", "y", "z"}

\* \w on a lower-cased string
IsWordChar(c) == IsDigit(c) \/ c \in LowerLetters \/ c = "_"

UpperChar(c) ==
  IF c \in LowerLetters
  THEN CHOOSE u \in {"A", "B", "C", "D", "E", "F", "G", "H", "I", "J", "K",
                     "L", "M", "N", "O", "P", "Q", "R", "S", "T", "U", "V",
                     "W", "X", "Y", "Z"} : LowerChar(u) = c
  ELSE c

\* str.capitalize()
Capitalize(s) ==
  IF Len(s) = 0 THEN ""
  ELSE UpperChar(Char(s, 1)) \o Lower(SubSeq(s, 2, Len(s)))

\* str.strip()
RECURSIVE Strip(_)
Strip(s) ==
  IF Len(s) > 0 /\ IsSpace(Char(s, 1)) THEN Strip(SubSeq(s, 2, Len(s)))
  ELSE IF Len(s) > 0 /\ IsSpace(Char(s, Len(s)))
       THEN Strip(SubSeq(s, 1, Len(s) - 1))
       ELSE s

\* the first position at or after i that holds no white space (\s*)
RECURSIVE SkipSpaces(_, _)
SkipSpaces(s, i) ==
  IF i <= Len(s) /\ IsSpace(Char(s, i)) THEN SkipSpaces(s, i + 1) ELSE i

\* the first position at or after i that holds no digit (\d*)
RECURSIVE SkipDigits(_, _)
SkipDigits(s, i) ==
  IF i <= Len(s) /\ IsDigit(Char(s, i)) THEN SkipDigits(s, i + 1) ELSE i

\* the end of (?:,\d+)* read from position i
RECURSIVE SkipGroups(_, _)
SkipGroups(s, i) ==
  IF /\ i + 1 <= Len(s)
     /\ Char(s, i) = ","
     /\ IsDigit(Char(s, i + 1))
  THEN SkipGroups(s, SkipDigits(s, i + 1))
  ELSE i

\* \s*<rupee sign>?(\d+(?:,\d+)*) read from position i: the span of the
\* group, or None
NumberAt(s, i) ==
  LET j == SkipSpaces(s, i)
      k == IF j <= Len(s) /\ Char(s, j) = "₹" THEN j + 1 ELSE j
  IN  IF k <= Len(s) /\ IsDigit(Char(s, k))
      THEN Some([from |-> k, to |-> SkipGroups(s, SkipDigits(s, k)) - 1])
      ELSE None

\* s[i:].startswith(k)
StartsAt(s, i, k) ==
  /\ i + Len(k) - 1 <= Len(s)
  /\ SubSeq(s, i, i + Len(k) - 1) = k

\* group.replace(',', '')
RECURSIVE RemoveCommas(_)
RemoveCommas(s) ==
  IF Len(s) = 0 THEN ""
  ELSE (IF Char(s, 1) = "," THEN "" ELSE Char(s, 1))
         \o RemoveCommas(SubSeq(s, 2, Len(s)))

\* float(group.replace(',', ''))
ToNumber(s) == ParseInt(RemoveCommas(s))

\* re.search(r'(?:k1|k2|...)\s*<rupee sign>?(\d+(?:,\d+)*)', s): the group
\* of the leftmost match, or None
KeywordNumber(keys, s) ==
  LET Hit(i, j) == /\ StartsAt(s, i, keys[j])
                   /\ NumberAt(s, i + Len(keys[j])) # None
      hits == {i \in 1..Len(s) : \E j \in 1..Len(keys) : Hit(i, j)}
  IN  IF hits = {} THEN None
      ELSE LET i == CHOOSE i \in hits : \A h \in hits : i <= h
               j == CHOOSE j \in 1..Len(keys) :
                      Hit(i, j) /\ \A l \in 1..(j - 1) : ~Hit(i, l)
               span == NumberAt(s, i + Len(keys[j]))[1]
           IN  Some(SubSeq(s, span.from, span.to))

\* r'between\s*R?(\d+(?:,\d+)*)\s*(?:and|to)\s*R?(\d+(?:,\d+)*)' matched at
\* position i, R the rupee sign: its two groups, or None
BetweenAt(s, i) ==
  IF ~StartsAt(s, i, "between") THEN None
  ELSE LET first == NumberAt(s, i + 7)
       IN  IF first = None THEN None
           ELSE LET j == SkipSpaces(s, first[1].to + 1)
                    k == IF StartsAt(s, j, "and") THEN j + 3
                         ELSE IF StartsAt(s, j, "to") THEN j + 2 ELSE 0
                    second == IF k = 0 THEN None ELSE NumberAt(s, k)
                IN  IF second = None THEN None
                    ELSE Some([min |-> SubSeq(s, first[1].from, first[1].to),
                               max |-> SubSeq(s, second[1].from, second[1].to)])

\* re.search of the between pattern: the groups of the leftmost match
between_match(s) ==
  LET hits == {i \in 1..Len(s) : BetweenAt(s, i) # None}
  IN  IF hits = {} THEN None
      ELSE BetweenAt(s, CHOOSE i \in hits : \A h \in hits : i <= h)

\* the questions asked of the engine
Questions ==
  {"What's the weather like today?",
   "Hello, help me: how much did I spend on movie tickets in 2024?",
   "hello",
   "Tell me a joke",
   "What is my current balance?",
   "What is my total spending?",
   "Show transactions above 5000",
   "Show spending trend",
   "Compare spending in january and february",
   "How many shopping transactions in february 2024?",
   "find swiggy payments",
   "category breakdown",
   "What percentage of spending is shopping?",
   "Show transactions above 1,000",
   "Show transactions above 250",
   "balance in january",
   "Show transactions below 300",
   "Show transactions between 250 and 5000",
   "transactions over exactly 5000"}

\* extract_search_terms on the questions of the model: the quoted terms of
\* the question, then the terms its three search patterns capture
extract_search_terms(question) ==
  CASE question \in {"Show transactions above 5000",
                      "Show transactions above 1,000",
                      "Show transactions above 250"} ->
         <<"above">>
    [] question = "Show spending trend" ->
         <<"spending">>
    [] question = "find swiggy payments" ->
         <<"swiggy">>
    [] question = "Show transactions below 300" ->
         <<"below">>
    [] question = "Show transactions between 250 and 5000" ->
         <<"between">>
    [] OTHER -> <<>>

\* re.search(r'\d{4}(-\d{1,2})?', s) finds a match
has_date_pattern(s) ==
  \E i \in 1..(Len(s) - 3) : \A j \in 0..3 : IsDigit(Char(s, i + j))

\* is_transaction_related with the financial keywords tested first
is_transaction_related_FinancialFirst(question) ==
  LET question_lower == Strip(Lower(question))
  IN  IF AnyIn(financial_keywords, question_lower)
           \/ has_date_pattern(question_lower)
      THEN TRUE
      ELSE IF AnyIn(non_financial_keywords, question_lower) THEN FALSE
      ELSE AnyIn(greetings \o general_chat, question_lower)

is_transaction_related(question) ==
  LET question_lower == Strip(Lower(question))
      has_financial_keywords == AnyIn(financial_keywords, question_lower)
      has_non_financial == AnyIn(non_financial_keywords, question_lower)
  IN  IF has_non_financial THEN FALSE
      ELSE IF has_financial_keywords \/ has_date_pattern(question_lower)
           THEN TRUE
           ELSE IF AnyIn(greetings \o general_chat, question_lower)
                THEN TRUE
                ELSE FALSE

\* re.search(r'\b(20\d{2})\b', s): the group of the leftmost match, or None
year_match(s) ==
  LET Hit(i) == /\ i + 3 <= Len(s)
                /\ SubSeq(s, i, i + 1) = "20"
                /\ IsDigit(Char(s, i + 2)) /\ IsDigit(Char(s, i + 3))
                /\ (i = 1 \/ ~IsWordChar(Char(s, i - 1)))
                /\ (i + 3 = Len(s) \/ ~IsWordChar(Char(s, i + 4)))
      hits == {i \in 1..Len(s) : Hit(i)}
  IN  IF hits = {} THEN None
      ELSE LET i == CHOOSE i \in hits : \A h \in hits : i <= h
           IN  Some(SubSeq(s, i, i + 3))

\* the first entry of an ordered dict whose key occurs in s, or None
FirstKey(table, s) ==
  LET hits == {j \in 1..Len(table) : Contains(s, table[j][1])}
  IN  IF hits = {} THEN None
      ELSE Some(table[CHOOSE j \in hits : \A h \in hits : j <= h])

extract_date_info(question) ==
  LET question_lower == Lower(question)
      month == FirstKey(months, question_lower)
      year == year_match(question_lower)
      month_part == IF month = None THEN EmptyDict
                    ELSE [month |-> month[1][2],
                          month_name |-> Capitalize(month[1][1])]
      year_part == IF year = None THEN EmptyDict ELSE [year |-> year[1]]
      period_part ==
        IF Contains(question_lower, "this week") THEN [period |-> "this_week"]
        ELSE IF Contains(question_lower, "last week")
             THEN [period |-> "last_week"]
        ELSE IF Contains(question_lower, "weekly") THEN [period |-> "weekly"]
        ELSE IF Contains(question_lower, "daily") THEN [period |-> "daily"]
        ELSE EmptyDict
  IN  month_part @@ year_part @@ period_part

extract_amount_info(question) ==
  LET question_lower == Lower(question)
      above_match ==
        KeywordNumber(<<"above", "greater than", "more than", "over">>,
                      question_lower)
      below_match ==
        KeywordNumber(<<"below", "less than", "under">>, question_lower)
      between == between_match(question_lower)
      equals_match ==
        KeywordNumber(<<"equals", "equal", "exactly">>, question_lower)
  IN  IF between # None
      THEN [min_amount |-> ToNumber(between[1].min),
            max_amount |-> ToNumber(between[1].max), type |-> "range"]
      ELSE IF above_match # None
      THEN [min_amount |-> ToNumber(above_match[1]), type |-> "above"]
      ELSE IF below_match # None
      THEN [max_amount |-> ToNumber(below_match[1]), type |-> "below"]
      ELSE IF equals_match # None
      THEN [exact_amount |-> ToNumber(equals_match[1]), type |-> "exact"]
      ELSE EmptyDict

\* the type of the last entry of the cascade that has a word in the question
intent_type_LastMatch(question_lower) ==
  LET hits == {j \in 1..Len(type_cascade) :
                 AnyIn(type_cascade[j].words, question_lower)}
  IN  IF hits = {} THEN "general"
      ELSE type_cascade[CHOOSE j \in hits : \A h \in hits : j >= h].type

\* the type of the first entry of the cascade that has a word in the question
intent_type(question_lower) ==
  LET hits == {j \in 1..Len(type_cascade) :
                 AnyIn(type_cascade[j].words, question_lower)}
  IN  IF hits = {} THEN "general"
      ELSE type_cascade[CHOOSE j \in hits : \A h \in hits : j <= h].type

understand_question(question) ==
  LET question_lower == Strip(Lower(question))
      mapped == FirstKey(category_mapping, question_lower)
  IN  [type |-> intent_type(question_lower),
       category |-> IF mapped = None THEN None ELSE Some(mapped[1][2]),
       time_period |-> None,
       metric |-> None,
       transaction_type |->
         IF AnyIn(credit_words, question_lower) THEN Some("credit")
         ELSE IF AnyIn(debit_words, question_lower) THEN Some("debit")
         ELSE None,
       is_relevant |-> is_transaction_related(question),
       date_info |-> extract_date_info(question),
       amount_info |-> extract_amount_info(question),
       search_terms |-> extract_search_terms(question)]

(***************************************************************************)
(* Answering a question.  An answer is a record: kind names the return     *)
(* statement that produced the text, the other fields are the values the   *)
(* text prints.  A handler that raises yields a record with the field      *)
(* raised.                                                                 *)
(***************************************************************************)

Raise(exception, argument) == [raised |-> exception, argument |-> argument]

Raised(answer) == "raised" \in DOMAIN answer

\* " ".join(parts)
RECURSIVE Join(_, _)
Join(parts, separator) ==
  IF Len(parts) = 0 THEN ""
  ELSE IF Len(parts) = 1 THEN parts[1]
  ELSE parts[1] \o separator \o Join(Tail(parts), separator)

get_period_string(date_info) ==
  LET parts ==
        (IF "month_name" \in DOMAIN date_info
         THEN <<"in " \o date_info["month_name"]>> ELSE <<>>)
        \o (IF "year" \in DOMAIN date_info
            THEN <<date_info["year"]>> ELSE <<>>)
  IN  IF DOMAIN date_info = {} THEN "overall"
      ELSE IF parts # <<>> THEN Join(parts, " ") ELSE "overall"

filter_by_date(df, date_info) ==
  LET by_year ==
        IF "year" \in DOMAIN date_info
        THEN SelectSeq(df, LAMBDA r : r.Date.year = ParseInt(date_info["year"]))
        ELSE df
  IN  IF df = <<>> THEN df
      ELSE IF "month" \in DOMAIN date_info
           THEN SelectSeq(by_year, LAMBDA r :
                            ZeroPadded(r.Date.month, 2) = date_info["month"])
           ELSE by_year

\* "No transactions found for {period_str}."
NoTransactions(date_info) ==
  [kind |-> "no_transactions", period |-> get_period_string(date_info)]

\* "No {category} transactions found for {period_str}."
NoCategoryTransactions(category, date_info) ==
  [kind |-> "no_category_transactions", category |-> category,
   period |-> get_period_string(date_info)]

Spending(rows) == SelectSeq(rows, LAMBDA r : r.Withdrawal > 0)

Credits(rows) == SelectSeq(rows, LAMBDA r : r.Deposit > 0)

\* the first n rows (head(n), [:n])
Head_n(rows, n) == SubSeq(rows, 1, Min(n, Len(rows)))

\* the last n rows (tail(n))
Tail_n(rows, n) == SubSeq(rows, Len(rows) - Min(n, Len(rows)) + 1, Len(rows))

handle_out_of_context_question ==
  [kind |-> "out_of_context",
   text |-> "Sorry, I can only help with questions about your transaction data. Try asking about your spending, categories, balances, or transaction trends."]

handle_greeting_question == [kind |-> "greeting"]

handle_help_question == [kind |-> "help"]

handle_average_question(bot, intent) ==
  LET filtered_df == filter_by_date(bot.df, intent.date_info)
  IN  IF filtered_df = <<>> THEN NoTransactions(intent.date_info)
      ELSE IF intent.category # None
      THEN LET cat_filtered == cat_data(filtered_df, intent.category[1])
           IN  IF cat_filtered = <<>>
               THEN NoCategoryTransactions(intent.category[1], intent.date_info)
               ELSE [kind |-> "category_average",
                     category |-> intent.category[1],
                     period |-> get_period_string(intent.date_info),
                     avg_amount |-> Mean(cat_filtered, "Withdrawal"),
                     count |-> Len(Spending(cat_filtered)),
                     total_spent |-> Sum(cat_filtered, "Withdrawal")]
      ELSE [kind |-> "average",
            period |-> get_period_string(intent.date_info),
            avg_spending |-> Mean(filtered_df, "Withdrawal")]

handle_total_question(bot, intent) ==
  LET filtered_df == filter_by_date(bot.df, intent.date_info)
  IN  IF filtered_df = <<>> THEN NoTransactions(intent.date_info)
      ELSE IF intent.category # None
      THEN LET cat_filtered == cat_data(filtered_df, intent.category[1])
           IN  IF cat_filtered = <<>>
               THEN NoCategoryTransactions(intent.category[1], intent.date_info)
               ELSE [kind |-> "category_total",
                     category |-> intent.category[1],
                     period |-> get_period_string(intent.date_info),
                     total_spent |-> Sum(cat_filtered, "Withdrawal"),
                     total_received |-> Sum(cat_filtered, "Deposit"),
                     count |-> Len(cat_filtered)]
      ELSE [kind |-> "total",
            period |-> get_period_string(intent.date_info),
            total_spent |-> Sum(filtered_df, "Withdrawal"),
            total_received |-> Sum(filtered_df, "Deposit"),
            net_flow |-> Sum(filtered_df, "Deposit")
                           - Sum(filtered_df, "Withdrawal")]

handle_count_question(bot, intent) ==
  LET filtered_df == filter_by_date(bot.df, intent.date_info)
  IN  IF filtered_df = <<>> THEN NoTransactions(intent.date_info)
      ELSE IF intent.category # None
      THEN LET cat_filtered == cat_data(filtered_df, intent.category[1])
           IN  IF cat_filtered = <<>>
               THEN NoCategoryTransactions(intent.category[1], intent.date_info)
               ELSE [kind |-> "category_count",
                     category |-> intent.category[1],
                     period |-> get_period_string(intent.date_info),
                     total_count |-> Len(cat_filtered),
                     spending_count |-> Len(Spending(cat_filtered)),
                     credit_count |-> Len(Credits(cat_filtered))]
      ELSE [kind |-> "count",
            period |-> get_period_string(intent.date_info),
            total_count |-> Len(filtered_df)]

\* the lines "{i+1}. {amount} - {Narration[:30]}..." of a listing
listed(rows) ==
  [i \in 1..Len(rows) |->
     [amount |-> rows[i].Withdrawal, date |-> strftime(rows[i].Date),
      narration |-> Head_n(rows[i].Narration, 30)]]

handle_top_question(bot, intent) ==
  LET filtered_df == filter_by_date(bot.df, intent.date_info)
      chosen == IF intent.category # None
                THEN cat_data(filtered_df, intent.category[1])
                ELSE filtered_df
      lines == listed(Spending(nlargest(5, chosen, "Withdrawal")))
  IN  IF filtered_df = <<>> THEN NoTransactions(intent.date_info)
      ELSE IF intent.category # None /\ chosen = <<>>
      THEN NoCategoryTransactions(intent.category[1], intent.date_info)
      ELSE IF lines = <<>> THEN [kind |-> "no_spending_in_period"]
      ELSE [kind |-> "top", category |-> intent.category,
            period |-> get_period_string(intent.date_info),
            lines |-> lines]

handle_balance_question(bot, intent) ==
  IF "current_balance" \in DOMAIN bot.analytics
  THEN [kind |-> "balance",
        current_balance |-> bot.analytics["current_balance"]]
  ELSE Raise("KeyError", "current_balance")

\* groupby('Category')['Withdrawal(Dr)'].sum(), as pairs
category_spending(rows) ==
  {[category |-> c, amount |-> Sum(cat_data(rows, c), "Withdrawal")] :
     c \in Unique(rows, "Category")}

handle_category_breakdown_question(bot, intent) ==
  LET filtered_df == filter_by_date(bot.df, intent.date_info)
  IN  IF filtered_df = <<>> THEN NoTransactions(intent.date_info)
      ELSE [kind |-> "category_breakdown",
            period |-> get_period_string(intent.date_info),
            lines |-> {line \in category_spending(filtered_df) :
                         line.amount > 0}]

\* the sequence of a set of numbers in increasing order
RECURSIVE Sorted(_)
Sorted(numbers) ==
  IF numbers = {} THEN <<>>
  ELSE LET least == CHOOSE n \in numbers : \A m \in numbers : n <= m
       IN  <<least>> \o Sorted(numbers \ {least})

\* groupby(df['Date'].dt.to_period('M'))[column].sum(): one row per month,
\* months in increasing order
monthly_sums(rows, column) ==
  LET key(r) == r.Date.year * 100 + r.Date.month
      keys == Sorted({key(rows[i]) : i \in 1..Len(rows)})
  IN  [k \in 1..Len(keys) |->
         [Date |-> ZeroPadded(keys[k] \div 100, 4) \o "-"
                     \o ZeroPadded(keys[k] % 100, 2),
          amount |-> Sum(SelectSeq(rows, LAMBDA r : key(r) = keys[k]),
                         column)]]

\* "increasing" if change > 5 else "decreasing" if change < -5 else "stable",
\* change the percentage (latest - previous) / previous * 100, 0 if
\* previous is 0
trend_direction(latest, previous) ==
  IF previous > 0 /\ (latest - previous) * 100 > 5 * previous
  THEN "increasing"
  ELSE IF previous > 0 /\ (latest - previous) * 100 < (0 - 5) * previous
       THEN "decreasing"
       ELSE "stable"

handle_trend_question(bot, intent) ==
  IF bot.df = <<>> THEN Raise("KeyError", "Date")
  ELSE
    LET monthly_data == monthly_sums(bot.df, "Withdrawal")
        chosen == IF intent.category # None
                  THEN monthly_sums(cat_data(bot.df, intent.category[1]),
                                    "Withdrawal")
                  ELSE monthly_data
        latest == chosen[Len(chosen)].amount
        previous == chosen[Len(chosen) - 1].amount
    IN  IF Len(monthly_data) < 2 THEN [kind |-> "not_enough_data"]
        ELSE IF Len(chosen) < 2
        THEN [kind |-> "not_enough_category_data",
              category |-> intent.category[1]]
        ELSE [kind |-> "trend", category |-> intent.category,
              latest |-> latest, previous |-> previous,
              direction |-> trend_direction(latest, previous),
              breakdown |-> Tail_n(chosen, 6)]

\* Date.dt.strftime('%B').str.lower()
month_name_of(ts) == month_names[ts.month]

\* percentage_change = difference / base * 100 if base > 0 else 0, as the
\* exact ratio numerator/denominator
percentage_change(difference, base) ==
  IF base > 0 THEN [numerator |-> difference * 100, denominator |-> base]
  ELSE [numerator |-> 0, denominator |-> 1]

Abs(n) == IF n < 0 THEN 0 - n ELSE n

handle_comparison_question(bot, intent) ==
  LET question == Lower(intent.original_question)
      found_months ==
        SelectSeq(month_names, LAMBDA month : Contains(question, month))
  IN  IF bot.df = <<>> THEN Raise("KeyError", "Date")
      ELSE IF Len(found_months) >= 2
      THEN LET month1 == found_months[1]
               month2 == found_months[2]
               month1_data ==
                 SelectSeq(bot.df, LAMBDA r : month_name_of(r.Date) = month1)
               month2_data ==
                 SelectSeq(bot.df, LAMBDA r : month_name_of(r.Date) = month2)
               month1_spent == Sum(month1_data, "Withdrawal")
               month2_spent == Sum(month2_data, "Withdrawal")
               change == percentage_change(month1_spent - month2_spent,
                                           month2_spent)
           IN  IF month1_data = <<>> \/ month2_data = <<>>
               THEN [kind |-> "no_comparison_data",
                     month1 |-> Capitalize(month1),
                     month2 |-> Capitalize(month2)]
               ELSE [kind |-> "comparison",
                     month1 |-> Capitalize(month1),
                     month2 |-> Capitalize(month2),
                     month1_spent |-> month1_spent,
                     month2_spent |-> month2_spent,
                     difference |-> month1_spent - month2_spent,
                     change |-> change,
                     significant |->
                       Abs(change.numerator) > 20 * change.denominator]
      ELSE LET monthly_data == monthly_sums(bot.df, "Withdrawal")
               latest == monthly_data[Len(monthly_data)].amount
               previous == monthly_data[Len(monthly_data) - 1].amount
           IN  IF Len(monthly_data) < 2
               THEN [kind |-> "not_enough_comparison_data"]
               ELSE [kind |-> "last_two_months",
                     latest |-> latest, previous |-> previous,
                     difference |-> latest - previous,
                     change |-> percentage_change(latest - previous, previous)]

\* the rows without repetitions of an earlier row (drop_duplicates)
RECURSIVE drop_duplicates(_)
drop_duplicates(rows) ==
  IF rows = <<>> THEN <<>>
  ELSE LET front == drop_duplicates(SubSeq(rows, 1, Len(rows) - 1))
           last == rows[Len(rows)]
       IN  IF \E i \in 1..Len(front) : front[i] = last THEN front
           ELSE Append(front, last)

\* the rows whose Narration contains a term, case ignored, concatenated
\* term by term and deduplicated
RECURSIVE search_results(_, _)
search_results(rows, terms) ==
  IF terms = <<>> THEN <<>>
  ELSE LET term == terms[Len(terms)]
           matches == SelectSeq(rows, LAMBDA r :
                                  Contains(Lower(r.Narration), Lower(term)))
       IN  drop_duplicates(
             search_results(rows, SubSeq(terms, 1, Len(terms) - 1))
               \o matches)

handle_search_question(bot, intent) ==
  LET filtered_df == filter_by_date(bot.df, intent.date_info)
      found == search_results(filtered_df, intent.search_terms)
  IN  IF intent.search_terms = <<>> THEN [kind |-> "no_search_terms"]
      ELSE IF filtered_df = <<>> THEN NoTransactions(intent.date_info)
      ELSE IF found = <<>>
      THEN [kind |-> "no_search_results", terms |-> intent.search_terms,
            period |-> get_period_string(intent.date_info)]
      ELSE [kind |-> "search", terms |-> intent.search_terms,
            count |-> Len(found),
            total_spent |-> Sum(found, "Withdrawal"),
            total_received |-> Sum(found, "Deposit"),
            \* the rows listed, by decreasing date
            rows |-> {found[i] : i \in 1..Len(found)}]

\* the amount criteria with "below" limited to records that have a withdrawal
amount_filter_DebitsOnly(rows, amount_info) ==
  IF amount_info.type = "above"
  THEN SelectSeq(rows, LAMBDA r : r.Withdrawal > amount_info.min_amount)
  ELSE IF amount_info.type = "below"
  THEN SelectSeq(rows, LAMBDA r : /\ r.Withdrawal > 0
                                  /\ r.Withdrawal < amount_info.max_amount)
  ELSE IF amount_info.type = "range"
  THEN SelectSeq(rows, LAMBDA r : /\ r.Withdrawal >= amount_info.min_amount
                                  /\ r.Withdrawal <= amount_info.max_amount)
  ELSE SelectSeq(rows, LAMBDA r : r.Withdrawal = amount_info.exact_amount)

\* the amount criteria with the bound of "above" included
amount_filter_Inclusive(rows, amount_info) ==
  IF amount_info.type = "above"
  THEN SelectSeq(rows, LAMBDA r : r.Withdrawal >= amount_info.min_amount)
  ELSE IF amount_info.type = "below"
  THEN SelectSeq(rows, LAMBDA r : r.Withdrawal < amount_info.max_amount)
  ELSE IF amount_info.type = "range"
  THEN SelectSeq(rows, LAMBDA r : /\ r.Withdrawal >= amount_info.min_amount
                                  /\ r.Withdrawal <= amount_info.max_amount)
  ELSE SelectSeq(rows, LAMBDA r : r.Withdrawal = amount_info.exact_amount)

\* the rows the amount criteria select
amount_filter(rows, amount_info) ==
  IF amount_info.type = "above"
  THEN SelectSeq(rows, LAMBDA r : r.Withdrawal > amount_info.min_amount)
  ELSE IF amount_info.type = "below"
  THEN SelectSeq(rows, LAMBDA r : r.Withdrawal < amount_info.max_amount)
  ELSE IF amount_info.type = "range"
  THEN SelectSeq(rows, LAMBDA r : /\ r.Withdrawal >= amount_info.min_amount
                                  /\ r.Withdrawal <= amount_info.max_amount)
  ELSE SelectSeq(rows, LAMBDA r : r.Withdrawal = amount_info.exact_amount)

handle_threshold_question(bot, intent) ==
  LET amount_info == intent.amount_info
      by_date == filter_by_date(bot.df, intent.date_info)
      filtered_df == IF intent.category # None
                     THEN cat_data(by_date, intent.category[1])
                     ELSE by_date
      result_df == amount_filter(filtered_df, amount_info)
  IN  IF DOMAIN amount_info = {} THEN [kind |-> "no_amount_threshold"]
      ELSE IF by_date = <<>> THEN NoTransactions(intent.date_info)
      ELSE IF filtered_df = <<>>
      THEN [kind |-> "no_category_transactions_in_period",
            category |-> intent.category[1]]
      ELSE IF amount_info.type \notin {"above", "below", "range", "exact"}
      THEN [kind |-> "criteria_not_understood"]
      ELSE IF result_df = <<>> THEN [kind |-> "no_matching_amount"]
      ELSE [kind |-> "threshold", criteria |-> amount_info,
            category |-> intent.category,
            period |-> get_period_string(intent.date_info),
            count |-> Len(result_df),
            total_amount |-> Sum(result_df, "Withdrawal"),
            avg_amount |-> Mean(result_df, "Withdrawal"),
            selected |-> result_df,
            lines |-> listed(nlargest(5, result_df, "Withdrawal"))]

\* DataFrame.nsmallest(n, column): smallest first, equal values in stored
\* order
RECURSIVE nsmallest(_, _, _)
nsmallest(n, rows, column) ==
  IF n = 0 \/ rows = <<>> THEN <<>>
  ELSE LET i == CHOOSE i \in 1..Len(rows) :
                  /\ \A j \in 1..Len(rows) : rows[j][column] >= rows[i][column]
                  /\ \A j \in 1..(i - 1) : rows[j][column] > rows[i][column]
       IN  <<rows[i]>> \o nsmallest(n - 1, Without(rows, i), column)

handle_minimum_question(bot, intent) ==
  LET filtered_df == filter_by_date(bot.df, intent.date_info)
      chosen == IF intent.category # None
                THEN cat_data(filtered_df, intent.category[1])
                ELSE filtered_df
      spending_txns == Spending(chosen)
  IN  IF filtered_df = <<>> THEN NoTransactions(intent.date_info)
      ELSE IF intent.category # None /\ chosen = <<>>
      THEN NoCategoryTransactions(intent.category[1], intent.date_info)
      ELSE IF spending_txns = <<>>
      THEN [kind |-> "no_spending", category |-> intent.category]
      ELSE [kind |-> "minimum", category |-> intent.category,
            period |-> get_period_string(intent.date_info),
            lines |-> listed(nsmallest(5, spending_txns, "Withdrawal"))]

\* the n pairs of largest amount of a set of pairs (pairs of equal amount
\* at the n-th place are all kept)
Largest(pairs, n) ==
  {l \in pairs : Cardinality({m \in pairs : m.amount > l.amount}) < n}

\* amount / total * 100 as the exact ratio
Percent(amount, total) == [numerator |-> amount * 100, denominator |-> total]

handle_percentage_question(bot, intent) ==
  LET filtered_df == filter_by_date(bot.df, intent.date_info)
      total_spending == Sum(filtered_df, "Withdrawal")
      total_income == Sum(filtered_df, "Deposit")
  IN  IF filtered_df = <<>> THEN NoTransactions(intent.date_info)
      ELSE IF intent.category # None
      THEN LET cat_spending ==
                 Sum(cat_data(filtered_df, intent.category[1]), "Withdrawal")
           IN  IF total_spending > 0
               THEN [kind |-> "category_percentage",
                     category |-> intent.category[1],
                     period |-> get_period_string(intent.date_info),
                     cat_spending |-> cat_spending,
                     percentage |-> Percent(cat_spending, total_spending),
                     total_spending |-> total_spending]
               ELSE [kind |-> "no_spending_for_percentage"]
      ELSE [kind |-> "ratios",
            period |-> get_period_string(intent.date_info),
            savings_rate |->
              IF total_income > 0
              THEN Some(Percent(total_income - total_spending, total_income))
              ELSE None,
            total_income |-> total_income,
            total_spending |-> total_spending,
            net_flow |-> total_income - total_spending,
            \* head(5) of the categories by decreasing amount, those with
            \* spending printed
            lines |-> {[category |-> line.category,
                        percentage |-> Percent(line.amount, total_spending),
                        amount |-> line.amount] :
                         line \in {l \in Largest(category_spending(filtered_df), 5) :
                                     l.amount > 0}}]

IsLeap(year) == (year % 4 = 0 /\ year % 100 # 0) \/ year % 400 = 0

DaysBeforeMonth == <<0, 31, 59, 90, 120, 151, 181, 212, 243, 273, 304, 334>>

\* the day number of a timestamp, so that differences are .days
toordinal(ts) ==
  LET y == ts.year - 1
  IN  y * 365 + (y \div 4) - (y \div 100) + (y \div 400)
        + DaysBeforeMonth[ts.month]
        + (IF ts.month > 2 /\ IsLeap(ts.year) THEN 1 ELSE 0)
        + ts.day

\* (Date.max() - Date.min()).days + 1
total_days(rows) == toordinal(DateMax(rows)) - toordinal(DateMin(rows)) + 1

\* the values of a column in order of first appearance
RECURSIVE first_seen(_, _)
first_seen(rows, column) ==
  IF rows = <<>> THEN <<>>
  ELSE LET front == first_seen(SubSeq(rows, 1, Len(rows) - 1), column)
           v == rows[Len(rows)][column]
       IN  IF \E i \in 1..Len(front) : front[i] = v THEN front
           ELSE Append(front, v)

\* Series.value_counts().head(n): values by decreasing count, equal counts
\* in order of first appearance
value_counts(rows, column, n) ==
  LET values == first_seen(rows, column)
      counted == [i \in 1..Len(values) |->
                    [value |-> values[i],
                     count |-> Len(SelectSeq(rows, LAMBDA r :
                                               r[column] = values[i]))]]
  IN  nlargest(n, counted, "count")

handle_frequency_question(bot, intent) ==
  LET filtered_df == filter_by_date(bot.df, intent.date_info)
  IN  IF filtered_df = <<>> THEN NoTransactions(intent.date_info)
      ELSE IF intent.category # None
      THEN LET cat_filtered == cat_data(filtered_df, intent.category[1])
           IN  IF cat_filtered = <<>>
               THEN NoCategoryTransactions(intent.category[1], intent.date_info)
               ELSE [kind |-> "category_frequency",
                     category |-> intent.category[1],
                     period |-> get_period_string(intent.date_info),
                     transaction_count |-> Len(cat_filtered),
                     spending_count |-> Len(Spending(cat_filtered)),
                     total_days |-> total_days(filtered_df),
                     frequent_amounts |->
                       SelectSeq(value_counts(cat_filtered, "Withdrawal", 3),
                                 LAMBDA c : c.value > 0)]
      ELSE [kind |-> "frequency",
            period |-> get_period_string(intent.date_info),
            transaction_count |-> Len(filtered_df),
            total_days |-> total_days(filtered_df),
            category_counts |-> value_counts(filtered_df, "Category", 5)]

handle_general_question(bot, intent) ==
  LET filtered_df == filter_by_date(bot.df, intent.date_info)
  IN  IF filtered_df = <<>> THEN NoTransactions(intent.date_info)
      ELSE [kind |-> "overview",
            period |-> get_period_string(intent.date_info),
            total_transactions |-> Len(filtered_df),
            total_spent |-> Sum(filtered_df, "Withdrawal"),
            total_received |-> Sum(filtered_df, "Deposit"),
            net_flow |-> Sum(filtered_df, "Deposit")
                           - Sum(filtered_df, "Withdrawal")]

\* the handler generate_response dispatches the intent to
Dispatch(bot, intent) ==
  CASE intent.type = "greeting" -> handle_greeting_question
    [] intent.type = "help" -> handle_help_question
    [] intent.type = "trend" -> handle_trend_question(bot, intent)
    [] intent.type = "comparison" -> handle_comparison_question(bot, intent)
    [] intent.type = "search" -> handle_search_question(bot, intent)
    [] intent.type = "threshold" -> handle_threshold_question(bot, intent)
    [] intent.type = "minimum" -> handle_minimum_question(bot, intent)
    [] intent.type = "percentage" -> handle_percentage_question(bot, intent)
    [] intent.type = "frequency" -> handle_frequency_question(bot, intent)
    [] intent.type = "average" -> handle_average_question(bot, intent)
    [] intent.type = "total" -> handle_total_question(bot, intent)
    [] intent.type = "count" -> handle_count_question(bot, intent)
    [] intent.type = "top" -> handle_top_question(bot, intent)
    [] intent.type = "balance" -> handle_balance_question(bot, intent)
    [] intent.type = "category_breakdown" ->
         handle_category_breakdown_question(bot, intent)
    [] OTHER -> handle_general_question(bot, intent)

\* understand_question on the questions of the model
understood == [question \in Questions |-> understand_question(question)]

\* generate_response without its except branch: what a handler raised goes
\* to the caller
respond_Propagates(answer) == answer

\* the text a handler returned, or the text the except branch makes of the
\* exception it raised: "I encountered an error processing your question:
\* {e}. Please try rephrasing your question."
respond(answer) ==
  IF Raised(answer)
  THEN [kind |-> "error", exception |-> answer.raised,
        argument |-> answer.argument]
  ELSE answer

\* the dispatch of generate_response on an understood question
answer_intent(bot, intent) ==
  IF ~intent.is_relevant THEN handle_out_of_context_question
  ELSE respond(Dispatch(bot, intent))

generate_response(bot, question) ==
  answer_intent(bot, understood[question] @@ [original_question |-> question])

\* generate_response of the engine that holds a ledger, for every ledger and
\* question of the model
answers ==
  [ledger \in Ledgers |->
     [question \in Questions |->
        generate_response(RAGTransactionChatbot(FileWith(ledger)), question)]]

(***************************************************************************)
(* The query engine as a state machine: the persisted ledger file, the     *)
(* module-level instance, and the requests served from it.                 *)
(***************************************************************************)

\* get_chatbot() that constructs an instance from the file on every call
get_chatbot_AlwaysConstructs(instance, file) ==
  Some(RAGTransactionChatbot(file))

\* get_chatbot(): the instance, constructed from the file when there is none
get_chatbot(instance, file) ==
  IF instance = None THEN Some(RAGTransactionChatbot(file)) ELSE instance

InitChat ==
  /\ transactions_json = <<>>
  /\ api_key = TRUE
  /\ batch_size = 1
  /\ pc = "done"
  /\ categorization_data = <<>>
  /\ batch_num = 0
  /\ all_results = <<>>
  /\ position = 0
  /\ result = NoResult
  /\ stored = {}
  /\ named = {}
  /\ omitted = {}
  /\ outcome = <<>>
  /\ requests = <<>>
  /\ batch_responses = <<>>
  /\ processed = {}
  /\ categorized_file = Missing
  /\ chatbot_instance = None
  /\ last_question = None
  /\ last_response = None
  /\ rule_narration = ""
  /\ rule_category = None

\* a pipeline run writes its categorized transactions to the file
PipelineWritesLedger(ledger) ==
  /\ categorized_file' = FileWith(ledger)
  /\ last_question' = None
  /\ last_response' = None
  /\ UNCHANGED <<runVars, ruleVars, orderVars, chatbot_instance>>

\* DELETE /refresh-data removes the files of data/processed
RefreshData ==
  /\ categorized_file' = Missing
  /\ last_question' = None
  /\ last_response' = None
  /\ UNCHANGED <<runVars, ruleVars, orderVars, chatbot_instance>>

\* POST /chatbot/chat
ChatWithBot(question) ==
  LET chatbot == get_chatbot(chatbot_instance, categorized_file)[1]
  IN  /\ chatbot_instance' = Some(chatbot)
      /\ last_question' = Some(question)
      /\ last_response' =
           IF chatbot.df # <<>>
           THEN Some([response |-> answers[chatbot.transactions][question],
                      intent |-> understood[question],
                      success |-> TRUE])
           ELSE Some([response |-> [kind |-> "no_data"],
                      intent |-> [type |-> "error", is_relevant |-> FALSE],
                      success |-> FALSE])
      /\ UNCHANGED <<runVars, ruleVars, orderVars, categorized_file>>

\* RAGTransactionChatbot.generate_response called on the instance
GenerateResponse(question) ==
  /\ chatbot_instance # None
  /\ last_question' = Some(question)
  /\ last_response' =
       Some([response |-> answers[chatbot_instance[1].transactions][question]])
  /\ UNCHANGED <<runVars, ruleVars, orderVars, categorized_file, chatbot_instance>>

\* GET /chatbot/analytics
GetAnalytics ==
  LET chatbot == get_chatbot(chatbot_instance, categorized_file)[1]
  IN  /\ chatbot_instance' = Some(chatbot)
      /\ last_question' = None
      /\ last_response' =
           IF chatbot.df # <<>>
           THEN Some([analytics |-> chatbot.analytics, success |-> TRUE])
           ELSE Some([analytics |->
                        [summary |-> [total_transactions |-> 0,
                                      total_debits |-> 0,
                                      total_credits |-> 0,
                                      current_balance |-> 0]],
                      success |-> FALSE])
      /\ UNCHANGED <<runVars, ruleVars, orderVars, categorized_file>>

\* GET /chatbot/status
GetChatbotStatus ==
  LET chatbot == get_chatbot(chatbot_instance, categorized_file)[1]
  IN  /\ chatbot_instance' = Some(chatbot)
      /\ last_question' = None
      /\ last_response' =
           IF chatbot.df # <<>>
           THEN Some([status |-> "active", data_available |-> TRUE,
                      total_transactions |-> Len(chatbot.df),
                      date_range |-> chatbot.analytics.date_range,
                      categories |-> DOMAIN chatbot.analytics.categories])
           ELSE Some([status |-> "active", data_available |-> FALSE,
                      total_transactions |-> 0,
                      date_range |-> EmptyDict,
                      categories |-> {}])
      /\ UNCHANGED <<runVars, ruleVars, orderVars, categorized_file>>

\* POST /chatbot/reload-data that resets the module-level instance before it
\* looks for the file
ReloadChatbotData_ResetsFirst ==
  /\ last_question' = None
  /\ IF categorized_file = Missing
     THEN /\ last_response' = Some([success |-> FALSE])
          /\ chatbot_instance' = None
     ELSE LET chatbot == get_chatbot(None, categorized_file)[1]
          IN  /\ chatbot_instance' = Some(chatbot)
              /\ last_response' =
                   Some([success |-> TRUE,
                         total_transactions |-> Len(chatbot.df),
                         analytics_available |-> DOMAIN chatbot.analytics # {}])
  /\ UNCHANGED <<runVars, ruleVars, orderVars, categorized_file>>

\* POST /chatbot/reload-data that leaves the module-level instance in place
ReloadChatbotData_KeepsInstance ==
  /\ last_question' = None
  /\ IF categorized_file = Missing
     THEN /\ last_response' = Some([success |-> FALSE])
          /\ UNCHANGED chatbot_instance
     ELSE LET chatbot == get_chatbot(chatbot_instance, categorized_file)[1]
          IN  /\ chatbot_instance' = Some(chatbot)
              /\ last_response' =
                   Some([success |-> TRUE,
                         total_transactions |-> Len(chatbot.df),
                         analytics_available |-> DOMAIN chatbot.analytics # {}])
  /\ UNCHANGED <<runVars, ruleVars, orderVars, categorized_file>>

\* POST /chatbot/reload-data
ReloadChatbotData ==
  /\ last_question' = None
  /\ IF categorized_file = Missing
     THEN /\ last_response' = Some([success |-> FALSE])
          /\ UNCHANGED chatbot_instance
     ELSE LET chatbot == get_chatbot(None, categorized_file)[1]
          IN  /\ chatbot_instance' = Some(chatbot)
              /\ last_response' =
                   Some([success |-> TRUE,
                         total_transactions |-> Len(chatbot.df),
                         analytics_available |-> DOMAIN chatbot.analytics # {}])
  /\ UNCHANGED <<runVars, ruleVars, orderVars, categorized_file>>

NextChat ==
  \/ \E ledger \in Ledgers : PipelineWritesLedger(ledger)
  \/ RefreshData
  \/ \E question \in Questions : ChatWithBot(question)
  \/ \E question \in Questions : GenerateResponse(question)
  \/ GetAnalytics
  \/ GetChatbotStatus
  \/ ReloadChatbotData

SpecChat == InitChat /\ [][NextChat]_vars

(***************************************************************************)
(* Properties of the query engine.                                         *)
(***************************************************************************)

\* the engine instance and the answer just given
TheBot == chatbot_instance[1]

Answered == last_question # None /\ "response" \in DOMAIN last_response[1]

TheAnswer == last_response[1].response

HasNonFinancial(question) ==
  AnyIn(non_financial_keywords, Strip(Lower(question)))

\* C7: a question that contains a non-financial keyword is classified not
\* relevant and generate_response answers it with the fixed refusal, whatever
\* else the question contains and whatever ledger the engine holds.
C7_NonFinancialIsRefused ==
  (Answered /\ HasNonFinancial(last_question[1])) =>
    /\ ~is_transaction_related(last_question[1])
    /\ ~understood[last_question[1]].is_relevant
    /\ TheAnswer.kind # "no_data" =>
         TheAnswer = handle_out_of_context_question

\* a question with a non-financial keyword and a financial keyword, a date
\* pattern, a greeting and a help phrase, refused on a loaded ledger
C7_Witness ==
  /\ Answered
  /\ HasNonFinancial(last_question[1])
  /\ AnyIn(financial_keywords, Lower(last_question[1]))
  /\ has_date_pattern(Lower(last_question[1]))
  /\ AnyIn(greetings, Lower(last_question[1]))
  /\ AnyIn(help_keywords, Lower(last_question[1]))
  /\ TheBot.df # <<>>
  /\ TheAnswer = handle_out_of_context_question

\* C8 (as claimed): the snapshot's current_balance of a non-empty ledger is the Balance of
\* the record with the latest date, in whatever order the records are stored.
C8_BalanceOfLatestRecord ==
  (chatbot_instance # None /\ TheBot.df # <<>>) =>
    \E i \in 1..Len(TheBot.df) :
      /\ TheBot.df[i].Date = DateMax(TheBot.df)
      /\ TheBot.analytics.current_balance = TheBot.df[i].Balance

\* the sum of a field over the entries of a dict
RECURSIVE SumField(_, _, _)
SumField(dict, keys, field) ==
  IF keys = {} THEN 0
  ELSE LET k == CHOOSE k \in keys : TRUE
       IN  dict[k][field] + SumField(dict, keys \ {k}, field)

\* the sum of the values of a dict
RECURSIVE SumValues(_, _)
SumValues(dict, keys) ==
  IF keys = {} THEN 0
  ELSE LET k == CHOOSE k \in keys : TRUE
       IN  dict[k] + SumValues(dict, keys \ {k})

C10_EmptyLedgerSnapshotIsZero ==
  (chatbot_instance # None /\ TheBot.transactions = <<>>) =>
    /\ {"total_spent", "total_received", "current_balance",
        "total_transactions", "categories", "monthly", "top_expenses",
        "top_credits"} \subseteq DOMAIN TheBot.analytics
    /\ TheBot.analytics.total_spent = 0
    /\ TheBot.analytics.total_received = 0
    /\ TheBot.analytics.current_balance = 0
    /\ TheBot.analytics.total_transactions = 0
    /\ DOMAIN TheBot.analytics.categories = {}
    /\ DOMAIN TheBot.analytics.monthly = {}
    /\ TheBot.analytics.top_expenses = <<>>
    /\ TheBot.analytics.top_credits = <<>>
    /\ Answered => TheAnswer.kind # "error"

\* the intent of the question just answered
TheIntent == understood[last_question[1]]

\* the handlers that narrow the ledger by the category of the intent
CategoryHandlers ==
  {"average", "total", "count", "top", "threshold", "minimum", "percentage",
   "frequency"}

\* the rows left of a ledger after the filters of an intent: the date filter,
\* the category filter in the handlers that use it, and the amount filter in
\* the threshold handler
FilteredSubset(df, intent) ==
  LET by_date == filter_by_date(df, intent.date_info)
      by_category == IF intent.category # None
                     THEN cat_data(by_date, intent.category[1])
                     ELSE by_date
  IN  IF intent.type = "threshold"
      THEN amount_filter(by_category, intent.amount_info)
      ELSE by_category

\* the answers that read "No ... transactions found ..."
NotFoundKinds ==
  {"no_transactions", "no_category_transactions",
   "no_category_transactions_in_period", "no_matching_amount"}

\* an answer given by a handler that filters by category
FilteredAnswer ==
  /\ Answered
  /\ TheAnswer.kind \notin {"no_data", "out_of_context", "error"}
  /\ TheIntent.type \in CategoryHandlers

\* C11 (as claimed): when the rows left after the filters of the intent are
\* none, the answer is a "No ... transactions found ..." message and never a
\* numeric answer of zero.
C11_EmptySubsetIsNotFound ==
  (FilteredAnswer /\ FilteredSubset(TheBot.df, TheIntent) = <<>>) =>
    TheAnswer.kind \in NotFoundKinds

\* the questions that contain "above N", with the number N they write
AboveQuestions ==
  {[question |-> "Show transactions above 5000", N |-> 5000],
   [question |-> "Show transactions above 1,000", N |-> 1000],
   [question |-> "Show transactions above 250", N |-> 250]}

\* C12: a question containing "above N", N possibly written with grouping
\* commas, is understood as the amount filter "above" with minimum N, and the
\* threshold handler selects exactly the records whose withdrawal is strictly
\* greater than N: a record whose withdrawal equals N is not selected.
C12_AboveIsStrict ==
  \A a \in AboveQuestions :
    /\ understood[a.question].amount_info
         = [min_amount |-> a.N, type |-> "above"]
    /\ understood[a.question].type = "threshold"
    /\ (Answered /\ last_question[1] = a.question
          /\ TheAnswer.kind # "no_data") =>
         LET greater == SelectSeq(TheBot.df, LAMBDA r : r.Withdrawal > a.N)
         IN  IF greater = <<>>
             THEN TheAnswer.kind \in NotFoundKinds
             ELSE /\ TheAnswer.kind = "threshold"
                  /\ TheAnswer.selected = greater
                  /\ TheAnswer.count = Len(greater)

\* "above 250" answered on a ledger with a withdrawal of 250 and a greater
\* one: the greater one is selected, the equal one is not
C12_Witness ==
  /\ Answered
  /\ last_question[1] = "Show transactions above 250"
  /\ TheAnswer.kind = "threshold"
  /\ \E i \in 1..Len(TheBot.df) : TheBot.df[i].Withdrawal = 250
  /\ TheAnswer.count = 1
  /\ TheAnswer.selected[1].Withdrawal = 5000

\* what the handler of a question returns or raises in the engine that holds
\* a ledger
handler_results ==
  [ledger \in Ledgers |->
     [question \in Questions |->
        Dispatch(RAGTransactionChatbot(FileWith(ledger)),
                 understood[question] @@ [original_question |-> question])]]

\* what the handler of the question just answered returned or raised
TheHandlerResult == handler_results[TheBot.transactions][last_question[1]]

\* C13: for every question and every ledger the engine holds, the empty
\* ledger with its snapshot without keys included, generate_response returns
\* a text answer; what a handler raises is turned into the "please try
\* rephrasing" text and does not reach the caller.
C13_AlwaysATextAnswer ==
  Answered =>
    /\ ~Raised(TheAnswer)
    /\ "kind" \in DOMAIN TheAnswer
    /\ (TheAnswer.kind # "no_data" /\ TheIntent.is_relevant
          /\ Raised(TheHandlerResult)) =>
         /\ TheAnswer.kind = "error"
         /\ TheAnswer.exception = TheHandlerResult.raised

\* the balance asked of an engine that holds the empty ledger: the handler
\* raises KeyError on the snapshot and the answer is the error text
C13_Witness ==
  /\ Answered
  /\ TheBot.df = <<>>
  /\ DOMAIN TheBot.analytics = {}
  /\ TheIntent.type = "balance"
  /\ Raised(TheHandlerResult)
  /\ TheAnswer.kind = "error"
  /\ TheAnswer.exception = "KeyError"

\* the frame made of a ledger: the records with their dates parsed and the
\* YearMonth column compute_analytics adds
frame_of == [ledger \in Ledgers |-> WithYearMonth(DataFrame(ledger))]

\* the snapshot compute_analytics makes of the frame of a ledger
snapshot_of == [ledger \in Ledgers |-> compute_analytics(DataFrame(ledger))]

\* the snapshot a second run of compute_analytics makes, from the frame as
\* the first run left it
snapshot_again == [ledger \in Ledgers |-> compute_analytics(frame_of[ledger])]

\* the state a successful reload leaves: its response is the last one given
Reloaded ==
  /\ last_response # None
  /\ "analytics_available" \in DOMAIN last_response[1]
  /\ last_response[1].success

\* C14: after a successful reload the ledger in memory is the content of the
\* file at that time and the snapshot is the analytics of that ledger; in
\* every state the frame and the snapshot an engine holds are the ones
\* computed from the ledger the same engine holds.
C14_SnapshotOfHeldLedger ==
  /\ chatbot_instance # None =>
       /\ TheBot.df = frame_of[TheBot.transactions]
       /\ TheBot.analytics = snapshot_of[TheBot.transactions]
  /\ Reloaded =>
       /\ categorized_file # Missing
       /\ TheBot.transactions = Content(categorized_file)
       /\ TheBot.analytics = snapshot_of[Content(categorized_file)]
       /\ last_response[1].total_transactions = Len(Content(categorized_file))

\* a successful reload of a file of two records
C14_Witness ==
  /\ Reloaded
  /\ Len(Content(categorized_file)) = 2
  /\ TheBot.transactions = Content(categorized_file)
  /\ TheBot.analytics.total_transactions = 2

(***************************************************************************)
(* The rule-based categorizer called on its own, on narrations put         *)
(* together from a payer part, a merchant part and a trailing part.        *)
(***************************************************************************)

\* how the narration starts: nothing, the UPI prefix, a person's name
PayerParts == {"", "UPI/", "MOHAN KUMAR "}

\* the merchant or purpose written in the narration
MerchantParts ==
  {"SWIGGY", "APOLLO", "UBER", "GROWW", "NEFT", "AIRTEL", "AMAZON",
   "NETFLIX", "SALON", "SCHOOL", "BIG STORE", "MOBILE", "CASHBACK",
   "EARNED", "INT.PD", "ADIDAS NEXUS", "XYZ 4471", ""}

\* how the narration ends: nothing, a company suffix, a brand
TrailingParts == {"", " PVT LTD", " NIKE"}

RuleNarrations ==
  {payer \o merchant \o trailing :
     payer \in PayerParts, merchant \in MerchantParts,
     trailing \in TrailingParts}

InitRules ==
  /\ transactions_json = <<>>
  /\ api_key = TRUE
  /\ batch_size = 1
  /\ pc = "done"
  /\ categorization_data = <<>>
  /\ batch_num = 0
  /\ all_results = <<>>
  /\ position = 0
  /\ result = NoResult
  /\ stored = {}
  /\ named = {}
  /\ omitted = {}
  /\ outcome = <<>>
  /\ requests = <<>>
  /\ batch_responses = <<>>
  /\ processed = {}
  /\ categorized_file = Missing
  /\ chatbot_instance = None
  /\ last_question = None
  /\ last_response = None
  /\ rule_narration \in RuleNarrations
  /\ rule_category = None

\* categorizer.enhanced_categorize(narration)
Categorize ==
  /\ rule_category = None
  /\ rule_category' = Some(enhanced_categorize(rule_narration))
  /\ UNCHANGED <<runVars, categorized_file, chatVars, orderVars, rule_narration>>

\* the next narration to categorize
NextNarration(narration) ==
  /\ rule_category # None
  /\ rule_narration' = narration
  /\ rule_category' = None
  /\ UNCHANGED <<runVars, categorized_file, chatVars, orderVars>>

NextRules ==
  \/ Categorize
  \/ \E narration \in RuleNarrations : NextNarration(narration)

SpecRules == InitRules /\ [][NextRules]_vars

(***************************************************************************)
(* Properties of the rule-based categorizer.                               *)
(***************************************************************************)

\* the categories whose keyword table has a keyword in the narration
MatchingCategories(narration) ==
  {keyword_map[i].category :
     i \in {j \in 1..Len(keyword_map) :
              AnyIn(keyword_map[j].keywords, Lower(narration))}}

HasPersonIndicator(narration) == AnyIn(person_indicators, Lower(narration))

HasBusinessKeyword(narration) == AnyIn(business_keywords, Lower(narration))

\* C15: a narration that contains, as a substring and whatever its case, a
\* keyword of exactly one category's table and no person indicator is given
\* that category.
C15_SingleCategoryKeywordWins ==
  (rule_category # None
     /\ Cardinality(MatchingCategories(rule_narration)) = 1
     /\ ~HasPersonIndicator(rule_narration)) =>
    rule_category[1] \in MatchingCategories(rule_narration)

\* an upper-case narration with a keyword of the utilities table only and a
\* brand of the special patterns, categorized by the keyword
C15_Witness ==
  /\ rule_category # None
  /\ rule_narration = "AIRTEL NIKE"
  /\ MatchingCategories(rule_narration) = {"Utilities & Bills"}
  /\ ~HasPersonIndicator(rule_narration)
  /\ rule_category[1] = "Utilities & Bills"

\* C16: computing the snapshot a second time from the ledger an engine
\* loaded, that is from the frame as the first computation left it (with its
\* YearMonth column), yields the snapshot of the first computation; so does
\* computing it from the ledger loaded anew.
C16_ComputeAnalyticsIsIdempotent ==
  chatbot_instance # None =>
    /\ TheBot.df = frame_of[TheBot.transactions]
    /\ snapshot_again[TheBot.transactions] = TheBot.analytics
    /\ snapshot_of[TheBot.transactions] = TheBot.analytics

\* an engine that holds two records of different months, its frame carrying
\* the column the first computation added
C16_Witness ==
  /\ chatbot_instance # None
  /\ Len(TheBot.df) = 2
  /\ \A i \in 1..2 : "YearMonth" \in DOMAIN TheBot.df[i]
  /\ Cardinality(DOMAIN TheBot.analytics.monthly) = 2
  /\ compute_analytics(TheBot.df) = TheBot.analytics

(***************************************************************************)
(* Further properties of the categorization run.                           *)
(***************************************************************************)

\* C17 (as claimed): no failure condition, a missing or rejected API
\* credential included, makes categorize_transactions_json raise to its
\* caller: every run ends with the categorized transactions.
C17_EntryPointNeverRaises == pc # "raised"

\* ceil(n / b) for b >= 1
Ceil(n, b) == CHOOSE q \in 0..n : q * b >= n /\ (q = 0 \/ (q - 1) * b < n)

\* the line of the prompt that names transaction i (zero-based) of the input
PromptLine(i) ==
  [id |-> i,
   narration |-> transactions_json[i + 1].Narration,
   amount |-> IF transactions_json[i + 1].Withdrawal # 0
              THEN transactions_json[i + 1].Withdrawal
              ELSE transactions_json[i + 1].Deposit,
   type |-> IF transactions_json[i + 1].Withdrawal > 0
            THEN "debit" ELSE "credit"]

\* the orchestrator has returned
Returned == pc \in {"returned", "done"}

\* C18: for n transactions and batch size b, the orchestrator issues exactly
\* ceil(n / b) requests in input order; request k (zero-based) carries the
\* slice [k * b, min((k + 1) * b, n)) of the input, so every transaction is
\* sent in exactly one request and only the last may carry fewer than b; with
\* n = 0 no request is issued and the mapping returned is empty.
C18_OneRequestPerBatch ==
  LET n == Len(transactions_json)
      b == batch_size
  IN  /\ Len(requests) <= Ceil(n, b)
      /\ \A k \in 0..(Len(requests) - 1) :
           LET request == requests[k + 1]
               end == IF (k + 1) * b < n THEN (k + 1) * b ELSE n
           IN  /\ Len(request) = end - k * b
               /\ \A j \in 1..Len(request) :
                    request[j] = PromptLine(k * b + j - 1)
      /\ Returned =>
           /\ Len(requests) = Ceil(n, b)
           /\ \A i \in 0..(n - 1) :
                Cardinality({<<k, j>> \in (1..Len(requests)) \X (1..b) :
                               /\ j <= Len(requests[k])
                               /\ requests[k][j].id = i}) = 1
           /\ \A k \in 1..(Len(requests) - 1) : Len(requests[k]) = b
           /\ n = 0 => (requests = <<>> /\ all_results = <<>>)

\* two transactions sent one per request, in input order
C18_Witness ==
  /\ Returned
  /\ Len(transactions_json) = 2
  /\ batch_size = 1
  /\ Len(requests) = 2
  /\ requests[1][1].id = 0
  /\ requests[2][1].id = 1

\* C19 (as claimed): a batch whose response is not a list of {id, category}
\* pairs takes the rule-based fallback as a whole: after a failed call, an
\* undecodable or a non-list response every id of the batch has an entry, and
\* the loop over a response list never goes on past an element that is not a
\* pair with both keys, so that no such response adds entries of its own.
C19_MalformedResponseFallsBack ==
  /\ \A k \in Degraded : BatchIds(Batch(k)) \subseteq DOMAIN all_results
  /\ ~(pc = "storing" /\ result.shape = "other")

(***************************************************************************)
(* Further properties of the rule-based categorizer.                       *)
(***************************************************************************)

\* the order in which the keyword tables are consulted
TableOrder ==
  <<"Food & Dining", "Healthcare", "Transportation", "Financial Services",
    "Transfer/Refund", "Utilities & Bills", "Shopping", "Entertainment",
    "Personal Care", "Education">>

\* the categories of the special patterns present in the narration
SpecialPatternCategories(narration) ==
  LET narration_lower == Lower(narration)
  IN  (IF Contains(narration_lower, "cashback")
          \/ Contains(narration_lower, "earned")
       THEN {"Transfer/Refund"} ELSE {})
      \cup (IF Contains(narration_lower, "int.pd")
               \/ Contains(narration_lower, "interest")
            THEN {"Financial Services"} ELSE {})
      \cup (IF Contains(narration_lower, "adidas")
               \/ Contains(narration_lower, "nike")
            THEN {"Shopping"} ELSE {})

\* C20: enhanced_categorize goes through its stages in a fixed order: a
\* person indicator without a business keyword gives Transfer/Refund even
\* when a category keyword is present; otherwise the first category in table
\* order with a keyword in the narration wins; otherwise a special pattern
\* decides; otherwise the result is Miscellaneous.  The result is always a
\* member of the taxonomy.
C20_StagesInFixedOrder ==
  rule_category # None =>
    LET matching == MatchingCategories(rule_narration)
        special == SpecialPatternCategories(rule_narration)
    IN  /\ rule_category[1] \in categories
        /\ IF HasPersonIndicator(rule_narration)
              /\ ~HasBusinessKeyword(rule_narration)
           THEN rule_category[1] = "Transfer/Refund"
           ELSE IF matching # {}
           THEN \E i \in 1..Len(TableOrder) :
                  /\ rule_category[1] = TableOrder[i]
                  /\ TableOrder[i] \in matching
                  /\ \A j \in 1..(i - 1) : TableOrder[j] \notin matching
           ELSE IF special # {} THEN rule_category[1] \in special
           ELSE rule_category[1] = "Miscellaneous"

\* a narration with the UPI prefix and a food keyword, given Transfer/Refund
C20_Witness ==
  /\ rule_category # None
  /\ rule_narration = "UPI/SWIGGY"
  /\ HasPersonIndicator(rule_narration)
  /\ ~HasBusinessKeyword(rule_narration)
  /\ "Food & Dining" \in MatchingCategories(rule_narration)
  /\ rule_category[1] = "Transfer/Refund"

(***************************************************************************)
(* Further properties of the query engine.                                 *)
(***************************************************************************)

\* the order in which the keyword sets of the types are tested
CascadeOrder ==
  <<"greeting", "help", "trend", "comparison", "search", "threshold",
    "minimum", "percentage", "frequency", "average", "total", "count", "top",
    "balance", "category_breakdown">>

\* the types whose keyword set has a keyword in the lower-cased question
MatchingTypes(question) ==
  {type_cascade[j].type :
     j \in {i \in 1..Len(type_cascade) :
              AnyIn(type_cascade[i].words, Strip(Lower(question)))}}

matching_types == [question \in Questions |-> MatchingTypes(question)]

\* C21: the intent type is that of the first keyword set, in the order
\* greeting, help, trend, comparison, search, threshold, minimum, percentage,
\* frequency, average, total, count, top, balance, category_breakdown, that
\* has a keyword in the lower-cased question, and "general" when none has; a
\* question matching several sets gets the earliest.
C21_TypeByOrderedCascade ==
  Answered =>
    LET matching == matching_types[last_question[1]]
    IN  /\ Len(type_cascade) = Len(CascadeOrder)
        /\ \A i \in 1..Len(CascadeOrder) :
             type_cascade[i].type = CascadeOrder[i]
        /\ IF matching = {} THEN TheIntent.type = "general"
           ELSE \E i \in 1..Len(CascadeOrder) :
                  /\ TheIntent.type = CascadeOrder[i]
                  /\ CascadeOrder[i] \in matching
                  /\ \A j \in 1..(i - 1) : CascadeOrder[j] \notin matching
        /\ "intent" \in DOMAIN last_response[1] =>
             (last_response[1].intent.type = TheIntent.type
                \/ last_response[1].intent.type = "error")

\* a question with a greeting, a help word and "how much": it is a greeting
C21_Witness ==
  /\ Answered
  /\ {"greeting", "help", "total"} \subseteq matching_types[last_question[1]]
  /\ "intent" \in DOMAIN last_response[1]
  /\ last_response[1].intent.type = "greeting"

\* C22 (as claimed): a question without a non-financial keyword is classified
\* relevant, also when it has no financial keyword, no date pattern, no
\* greeting and no help phrase, and is answered by a handler, not by the
\* refusal.
C22_GateIsDefaultPermissive ==
  (Answered /\ ~HasNonFinancial(last_question[1])) =>
    /\ TheIntent.is_relevant
    /\ TheAnswer # handle_out_of_context_question

\* C23 (as claimed): when the relevance gate rejects a question the intent
\* has relevance false and every other field empty: the type is not assigned
\* from the cascade, and there is no category, no transaction type, no date
\* filter, no amount filter and no search term; this is the intent the chat
\* route returns with the refusal.
C23_RejectedIntentIsEmpty ==
  (Answered /\ ~is_transaction_related(last_question[1])) =>
    /\ ~TheIntent.is_relevant
    /\ TheIntent.type = "general"
    /\ TheIntent.category = None
    /\ TheIntent.transaction_type = None
    /\ TheIntent.date_info = EmptyDict
    /\ TheIntent.amount_info = EmptyDict
    /\ TheIntent.search_terms = <<>>
    /\ ("intent" \in DOMAIN last_response[1] /\ last_response[1].success) =>
         last_response[1].intent = TheIntent

\* the intent of the question just answered carries a date, category or
\* amount filter
ActiveFilter ==
  \/ DOMAIN TheIntent.date_info # {}
  \/ TheIntent.category # None
  \/ DOMAIN TheIntent.amount_info # {}

\* C24 (as claimed): when the intent carries an active filter the answer is
\* computed from the filtered subset of the ledger and none of its values is
\* read from the snapshot: a balance reported under a filter is the Balance of
\* the last row of the filtered subset, not the snapshot's current_balance of
\* the whole ledger.
C24_FilteredAnswerNotFromSnapshot ==
  (Answered /\ ActiveFilter /\ TheAnswer.kind = "balance") =>
    LET subset == FilteredSubset(TheBot.df, TheIntent)
    IN  /\ subset # <<>>
        /\ TheAnswer.current_balance = iloc_Last(subset, "Balance")

(***************************************************************************)
(* The batch loop of batch_categorize_all_transactions with the batches    *)
(* taken in any order: every batch keeps the response it is given.         *)
(***************************************************************************)
\* the loop over batch_results on a mapping: a pair is stored under the id it
\* names, an element of another shape is skipped, and a pair whose id is
\* unhashable raises, which ends the loop with the except branch
RECURSIVE StoreResponse(_, _, _)
StoreResponse(results, batch, batch_results) ==
  IF batch_results = <<>> THEN results
  ELSE LET e == Head(batch_results)
       IN  IF e.shape = "pair_unhashable_id" THEN Fallback(results, batch)
           ELSE StoreResponse(IF e.shape = "pair"
                              THEN Put(results, e.id,
                                       ValidatedCategory(e.category))
                              ELSE results,
                              batch, Tail(batch_results))

\* one iteration of the batch loop: the except branch when the call or the
\* parse failed, the loop over the parsed list otherwise
ProcessBatch(results, batch, response) ==
  IF response.failed THEN Fallback(results, batch)
  ELSE StoreResponse(results, batch, response.batch_results)

\* pairs naming the first two input ids, with a label of the taxonomy or not
OrderPairs == [shape : {"pair"}, id : {0, 1}, category : ResponseLabels]

\* the responses a batch may be given: a failure, the empty list, a list of
\* one element, and a pair followed by a pair whose id is unhashable
OrderResponses ==
  LET unhashable == [shape |-> "pair_unhashable_id", id |-> 0,
                     category |-> "Shopping"]
      lists == {<<>>} \cup {<<e>> : e \in OrderPairs \cup {unhashable}}
                 \cup {<<e, unhashable>> : e \in OrderPairs}
  IN  {[failed |-> TRUE, batch_results |-> <<>>]}
        \cup {[failed |-> FALSE, batch_results |-> l] : l \in lists}

\* batch numbers of the run
BatchNumbers == 0..(total_batches(categorization_data, batch_size) - 1)

InitOrder ==
  /\ transactions_json \in InputLists
  /\ api_key = TRUE
  /\ batch_size \in 1..MaxBatchSize
  /\ pc = "loop"
  /\ categorization_data = json_to_categorization_format(transactions_json)
  /\ batch_num = 0
  /\ all_results = <<>>
  /\ position = 0
  /\ result = NoResult
  /\ stored = {}
  /\ named = {}
  /\ omitted = {}
  /\ outcome = <<>>
  /\ requests = <<>>
  /\ batch_responses \in
       [1..total_batches(json_to_categorization_format(transactions_json),
                         batch_size) -> OrderResponses]
  /\ processed = {}
  /\ categorized_file = Missing
  /\ chatbot_instance = None
  /\ last_question = None
  /\ last_response = None
  /\ rule_narration = ""
  /\ rule_category = None

\* the loop body on a batch not processed yet
ProcessAnyBatch(k) ==
  /\ k \in BatchNumbers \ processed
  /\ all_results' = ProcessBatch(all_results, Batch(k), batch_responses[k + 1])
  /\ processed' = processed \cup {k}
  /\ UNCHANGED <<transactions_json, api_key, batch_size, pc,
                 categorization_data, batch_num, position, result, stored,
                 named, omitted, outcome, requests, categorized_file,
                 chatVars, ruleVars, batch_responses>>

NextOrder == \E k \in 0..(MaxTx - 1) : ProcessAnyBatch(k)

SpecOrder == InitOrder /\ [][NextOrder]_vars

\* the batch loop on the batches in a given order
RECURSIVE ProcessInOrder(_, _)
ProcessInOrder(results, order) ==
  IF order = <<>> THEN results
  ELSE ProcessInOrder(ProcessBatch(results, Batch(Head(order)),
                                   batch_responses[Head(order) + 1]),
                      Tail(order))

\* what batch_categorize_all_transactions returns: the batches in input order
InInputOrder ==
  ProcessInOrder(<<>>, [i \in 1..Cardinality(BatchNumbers) |-> i - 1])

\* C25 (as claimed): the mapping returned does not depend on the order in
\* which the batches are processed: with the same per-batch responses, the
\* batches taken in any order give the mapping of the input order.
C25_BatchOrderDoesNotMatter ==
  processed = BatchNumbers => all_results = InInputOrder

\* the step is the except branch of the current batch
FallbackStep ==
  /\ Len(outcome') = Len(outcome) + 1
  /\ outcome'[Len(outcome')] # "completed"

\* C26: when the processing of a batch fails, the fallback leaves every entry
\* already in the mapping as it is, whether it was written from this batch's
\* response before the failure or from another batch's response, and assigns
\* enhanced_categorize(narration) to just the batch ids not yet in the mapping.
C26_FallbackKeepsStoredEntries ==
  [][FallbackStep =>
       /\ \A id \in DOMAIN all_results :
            id \in DOMAIN all_results' /\ all_results'[id] = all_results[id]
       /\ DOMAIN all_results' = DOMAIN all_results \cup BatchIds(CurrentBatch)
       /\ \A i \in 1..Len(CurrentBatch) :
            CurrentBatch[i].id \notin DOMAIN all_results =>
              all_results'[CurrentBatch[i].id] =
                enhanced_categorize(CurrentBatch[i].narration)]_vars

\* the last batch failed with one of its ids stored from a response pair and
\* another one assigned by the fallback
C26_Witness ==
  /\ pc = "loop"
  /\ outcome # <<>>
  /\ outcome[Len(outcome)] = "raised_in_loop"
  /\ \E i, j \in BatchIds(Batch(Len(outcome) - 1)) :
       /\ i \in named /\ all_results[i] = "Shopping"
       /\ j \notin named /\ j \in DOMAIN all_results
       /\ all_results[j] # "Shopping"

\* the step is a reload request: its response reports success and carries
\* neither an answer nor analytics
ReloadStep ==
  /\ last_response' # None
  /\ "success" \in DOMAIN last_response'[1]
  /\ DOMAIN last_response'[1] \cap {"response", "analytics"} = {}

\* C27: a reload request made while the persisted ledger file is missing
\* reports success false and leaves the engine's instance, with its ledger
\* and snapshot, as it was, so later queries are answered from the same
\* ledger as before.
C27_FailedReloadKeepsInstance ==
  [][(categorized_file = Missing /\ ReloadStep) =>
       /\ ~last_response'[1].success
       /\ chatbot_instance' = chatbot_instance]_vars

\* a reload has just failed on a missing file while the engine holds a ledger
C27_Witness ==
  /\ categorized_file = Missing
  /\ last_response = Some([success |-> FALSE])
  /\ chatbot_instance # None
  /\ TheBot.transactions # <<>>
  /\ TheBot.analytics = snapshot_of[TheBot.transactions]

\* C28: categorize_transactions_json returns one record per input record, in
\* input order; record i has every field of input record i with its value and
\* just the Category added, which is the mapping entry of id i, the
\* zero-based position of the record (Miscellaneous when the mapping has no
\* entry for it); the input records are not modified.
C28_OneRecordPerInputInOrder ==
  /\ [](categorized_file # Missing =>
          LET returned == Content(categorized_file)
          IN  /\ Len(returned) = Len(transactions_json)
              /\ \A i \in 1..Len(returned) :
                   /\ DOMAIN returned[i] =
                        DOMAIN transactions_json[i] \cup {"Category"}
                   /\ \A field \in DOMAIN transactions_json[i] :
                        returned[i][field] = transactions_json[i][field]
                   /\ returned[i].Category =
                        IF (i - 1) \in DOMAIN all_results
                        THEN all_results[i - 1] ELSE "Miscellaneous")
  /\ [][transactions_json' = transactions_json]_vars

\* the ledger of two records was assembled from a mapping that gives them
\* different categories
C28_Witness ==
  /\ pc = "done"
  /\ categorized_file # Missing
  /\ Len(Content(categorized_file)) = 2
  /\ DOMAIN all_results = {0, 1}
  /\ all_results[0] # all_results[1]
  /\ Content(categorized_file)[1].Category = all_results[0]
  /\ Content(categorized_file)[2].Category = all_results[1]

\* the questions of the model that carry a "below", "between" or "exactly"
\* criterion, with the amount filter they are to be understood as
ModeQuestions ==
  {[question |-> "Show transactions below 300",
    amount_info |-> [max_amount |-> 300, type |-> "below"]],
   [question |-> "Show transactions between 250 and 5000",
    amount_info |-> [min_amount |-> 250, max_amount |-> 5000, type |-> "range"]],
   [question |-> "transactions over exactly 5000",
    amount_info |-> [exact_amount |-> 5000, type |-> "exact"]]}

\* the records of a subset that a criterion selects, as the claim states it
Selected(rows, amount_info) ==
  CASE amount_info.type = "below" ->
         SelectSeq(rows, LAMBDA r : r.Withdrawal < amount_info.max_amount)
    [] amount_info.type = "range" ->
         SelectSeq(rows, LAMBDA r : /\ amount_info.min_amount <= r.Withdrawal
                                     /\ r.Withdrawal <= amount_info.max_amount)
    [] amount_info.type = "exact" ->
         SelectSeq(rows, LAMBDA r : r.Withdrawal = amount_info.exact_amount)

\* the working subset of the question just answered: the ledger narrowed by
\* the date and the category of the intent
FilteredSubsetBeforeAmount ==
  LET by_date == filter_by_date(TheBot.df, TheIntent.date_info)
  IN  IF TheIntent.category # None
      THEN cat_data(by_date, TheIntent.category[1])
      ELSE by_date

LoadedFrom(file) == IF file = Missing THEN <<>> ELSE Content(file)

\* the step is a reload request that succeeded
SuccessfulReloadStep == ReloadStep /\ last_response'[1].success

\* C30: between two reloads the engine holds a single instance whose ledger
\* and snapshot are those of the last load: an instance is constructed from
\* the file when none exists, and once one exists only a successful reload
\* replaces it; a chat query, an analytics or status request, a pipeline run
\* rewriting the file and DELETE /refresh-data leave the instance, with its
\* ledger and snapshot, as it is, and a question is answered by the instance
\* held before it.
C30_SingleInstanceBetweenReloads ==
  [][/\ (chatbot_instance # None /\ chatbot_instance' # chatbot_instance) =>
          SuccessfulReloadStep
     /\ chatbot_instance' # chatbot_instance =>
          /\ chatbot_instance' # None
          /\ chatbot_instance'[1].transactions = LoadedFrom(categorized_file)
     /\ (chatbot_instance # None /\ last_question' # None) =>
          /\ chatbot_instance' = chatbot_instance
          /\ "response" \in DOMAIN last_response'[1]]_vars

\* a question answered from the ledger loaded earlier while the file holds
\* another ledger
C30_Witness ==
  /\ Answered
  /\ categorized_file # Missing
  /\ Content(categorized_file) # <<>>
  /\ TheBot.transactions # <<>>
  /\ TheBot.transactions # Content(categorized_file)
  /\ TheAnswer = answers[TheBot.transactions][last_question[1]]
  /\ TheAnswer # answers[Content(categorized_file)][last_question[1]]


====
